---- MODULE Spec2Model ----
(***************************************************************************)
(* A model of the mostsimilar and matchtext tools: the filename            *)
(* version/date ordering (CompareVersionInfo, ChooseMoveIndex), the        *)
(* streaming tokenizer (StatisticsTokenizer over DecodeUtf8) and the       *)
(* Statistics object, the similarity functions (TF-IDF cosine, SimHash),   *)
(* ReadFileToStatistics, main() of MostSimilar.cpp (parallel loading,      *)
(* all-pairs scoring, dedup selection, row output) and main() of           *)
(* MatchText.cpp (worker threads fed through a blocking queue).            *)
(*                                                                         *)
(* Scores are doubles in [0, 1] in the code.  The model counts them in     *)
(* units of 0.5e-8, the epsilon of IsDedupScore, so that the comparisons   *)
(* score + epsilon >= threshold are exact integer comparisons.             *)
(***************************************************************************)
EXTENDS Integers, Sequences, FiniteSets, TLC

VARIABLES
  \* ---- CompareVersionInfo applied to two descriptors
  cv_left, cv_right, cv_result, cv_pc,
  \* ---- ChooseMoveIndex applied to two indices of the vectors below
  ch_left, ch_right, ch_result, ch_pc,
  \* ---- main() of MostSimilar.cpp, its inputs
  total_files,     \* all_files.size(); the files are 0 .. total_files - 1
  load_result,     \* per file: "fail", "empty" or "ok" (ReadFileToStatistics)
  name_info,       \* per file: ExtractVersionInfo of its path
  disk_time,       \* per file: GetLastWriteTime of its path
  under_dups,      \* the files whose path lies under <root>/Duplicates
  dedup, dedup_threshold, worker_count,
  \* ---- main(), the loader threads
  next_index, processed,
  w_pc,            \* per worker: "fetch", "load" or "done"
  w_index,         \* per worker: the index it is loading (0 otherwise)
  worker_docs,     \* per worker: the indices of the documents it kept
  \* ---- main(), the main thread
  m_pc,            \* "wait", "join", "merge", "meta", "score", "dedup",
                   \* "rows", "done"
  files,           \* the documents kept, by position: their file
  sim,             \* per pair of documents, by file: the score computed
  version_infos, mod_times, best_index, best_score,
  dedup_sources, rows, pair_ids, status,
  \* ---- one Statistics object fed by one StatisticsTokenizer
  tk_input,     \* the bytes of the text
  tk_fed,       \* how many of them were handed to AddChunk so far
  tk_pc,        \* "feeding" until Finish has run, then "finished"
  tk_split,     \* whether a chunk other than the last left bytes in _pending
  pending,      \* StatisticsTokenizer::_pending
  token,        \* StatisticsTokenizer::_token
  counts,       \* Statistics::_counts
  totWords,     \* Statistics::_totWords
  locale,       \* the locale of the process: "C" or "C.UTF-8"
  \* ---- the public operations called on one Statistics object
  st_op,        \* the operation called last
  st_given,     \* the string handed to the last AddToken call
  st_after,     \* that string when the call returned
  st_calls,     \* the number of calls so far
  \* ---- DecodeUtf8 applied at one index of tk_input
  dc_index, dc_final, dc_result, dc_pc,
  \* ---- two texts with the same words, and Dist of their statistics
  fd_left, fd_right, fd_stats_left, fd_stats_right, fd_dist, fd_pc,
  \* ---- the similarity functions applied to two Statistics objects
  sm_left, sm_right,            \* the objects: counts, iteration order, total
  sm_tfidf,                     \* TfIdfCosineSimilarity(left, right)
  sm_hash_left, sm_hash_right,  \* their SimHash128Signature
  sm_distance, sm_similarity,   \* SimHashDistance and SimHashSimilarity
  sm_use_hash,                  \* the metric chosen: TRUE for SimHash
  sm_pc,
  \* ---- ReadFileToStatistics called on the Statistics object above
  rf_ext,         \* the extension of the path: "pdf", "rtf", "zip",
                  \* "legacy" or "other"
  rf_no_convert,  \* the flag --no-convert
  rf_prior,       \* the total of the object when the call was made
  rf_attempt,     \* the extractor that ran last: "pdf", ..., "raw"
  rf_text,        \* the text that extractor handed to its tokenizer
  rf_finished,    \* whether it called Finish on its tokenizer
  rf_result,      \* the value returned
  rf_pc,          \* "entry", "extract", "raw", "done"
  \* ---- main() of MatchText.cpp once the sample is read
  mt_can_open,    \* whether the repository directory can be opened
  mt_paths,       \* the number of files the enumeration finds
  workerCount,
  bq,             \* the BlockingQueue: its items and its shutdown flag
  mt_pushed,      \* the number of files pushed so far
  mt_w_pc,        \* per worker: "pop", "read" or "exited"
  mt_w_path,      \* per worker: the path it popped last
  workerDocs,     \* per worker: the paths it kept
  mt_joined,      \* the workers main has joined
  mt_pc,          \* "start", "open", "enumerate", "join", "returned"
  mt_status       \* the value main returned

cvvars == <<cv_left, cv_right, cv_result, cv_pc>>
chvars == <<ch_left, ch_right, ch_result, ch_pc>>
docvars == <<version_infos, mod_times>>
inputvars ==
  <<total_files, load_result, name_info, disk_time, under_dups, dedup,
    dedup_threshold, worker_count>>
loadvars == <<next_index, processed, w_pc, w_index, worker_docs>>
outvars ==
  <<sim, best_index, best_score, dedup_sources, rows, pair_ids, status>>
mainvars == <<inputvars, loadvars, m_pc, files, outvars>>
tkvars == <<tk_input, tk_fed, tk_pc, tk_split, pending, token, counts, totWords>>
stvars == <<st_op, st_given, st_after, st_calls>>
dcvars == <<dc_index, dc_final, dc_result, dc_pc>>
fdvars == <<fd_left, fd_right, fd_stats_left, fd_stats_right, fd_dist, fd_pc>>
simvars ==
  <<sm_left, sm_right, sm_tfidf, sm_hash_left, sm_hash_right, sm_distance,
    sm_similarity, sm_use_hash, sm_pc>>
rfvars ==
  <<rf_ext, rf_no_convert, rf_prior, rf_attempt, rf_text, rf_finished,
    rf_result, rf_pc>>
mtvars ==
  <<mt_can_open, mt_paths, workerCount, bq, mt_pushed, mt_w_pc, mt_w_path,
    workerDocs, mt_joined, mt_pc, mt_status>>
iovars == <<rfvars, mtvars>>
extvars == <<locale, stvars, dcvars, fdvars, simvars, iovars>>
vars == <<cvvars, chvars, docvars, tkvars, mainvars, extvars>>

\* ------------------------------------------------------------------ bounds
MaxParts == 2      \* numeric components of a version descriptor
MaxPart == 2       \* largest value of one numeric component
MaxSuffix == 1     \* largest suffix ordinal drawn ('a' = 1)
MaxDocs == 3       \* documents kept after loading
MaxTime == 2       \* distinct valid modification times
MaxLen == 4        \* bytes of a tokenized text

\* ------------------------------------------------------------ VersionInfo
\* struct VersionInfo, default-constructed.
NoVersionInfo ==
  [has_version |-> FALSE, is_date |-> FALSE, parts |-> <<>>, suffix |-> 0,
   has_tag |-> FALSE]

\* The descriptor of a name where only a tag keyword was found.
TagOnlyInfo == [NoVersionInfo EXCEPT !.has_tag = TRUE]

SeqsUpTo(S, n) == UNION {[1..k -> S] : k \in 1..n}

\* The descriptors ExtractVersionInfo builds for version-like matches:
\* has_version, at least one component, a suffix ordinal, the name's tag flag.
NumberedInfos ==
  {[has_version |-> TRUE, is_date |-> FALSE, parts |-> p, suffix |-> s,
    has_tag |-> t] :
     p \in SeqsUpTo(0..MaxPart, MaxParts), s \in 0..MaxSuffix, t \in BOOLEAN}

\* The descriptors ExtractVersionInfo builds for date matches: six components
\* {year, month, day, hour, minute, second}, suffix 0.
DateInfos ==
  {[has_version |-> TRUE, is_date |-> TRUE, parts |-> <<y, m, d, 0, 0, 0>>,
    suffix |-> 0, has_tag |-> t] :
     y \in 0..MaxPart, m \in 1..2, d \in 0..1, t \in BOOLEAN}

VersionInfos == {NoVersionInfo, TagOnlyInfo} \cup NumberedInfos \cup DateInfos

\* (i < parts.size()) ? parts[i] : 0, with the code's 0-based i.
PartAt(parts, i) == IF i < Len(parts) THEN parts[i + 1] ELSE 0

Max(a, b) == IF a >= b THEN a ELSE b

\* The component loop of CompareVersionInfo from index i on; 0 when no
\* component differs.
RECURSIVE ComparePartsFrom(_, _, _, _)
ComparePartsFrom(lp, rp, i, max_parts) ==
  IF i >= max_parts THEN 0
  ELSE IF PartAt(lp, i) # PartAt(rp, i)
       THEN (IF PartAt(lp, i) < PartAt(rp, i) THEN -1 ELSE 1)
       ELSE ComparePartsFrom(lp, rp, i + 1, max_parts)

\* A plausible slip: the tag-only side wins only over an untagged version.
CompareVersionInfoTagAware(left, right) ==
  IF left.is_date # right.is_date THEN (IF left.is_date THEN 1 ELSE -1)
  ELSE IF left.has_version /\ right.has_version THEN
    LET c == ComparePartsFrom(left.parts, right.parts, 0,
                              Max(Len(left.parts), Len(right.parts)))
    IN IF c # 0 THEN c
       ELSE IF left.suffix # right.suffix
            THEN (IF left.suffix < right.suffix THEN -1 ELSE 1)
       ELSE IF left.has_tag # right.has_tag
            THEN (IF left.has_tag THEN 1 ELSE -1)
       ELSE 0
  ELSE IF left.has_version # right.has_version THEN
    IF ~left.has_version
    THEN (IF left.has_tag /\ ~right.has_tag THEN 1 ELSE -1)
    ELSE (IF right.has_tag /\ ~left.has_tag THEN -1 ELSE 1)
  ELSE IF left.has_tag # right.has_tag THEN (IF left.has_tag THEN 1 ELSE -1)
  ELSE 0

\* A plausible slip: the date test is made after the component comparison.
CompareVersionInfoDateLate(left, right) ==
  IF left.has_version /\ right.has_version THEN
    LET c == ComparePartsFrom(left.parts, right.parts, 0,
                              Max(Len(left.parts), Len(right.parts)))
    IN IF c # 0 THEN c
       ELSE IF left.is_date # right.is_date
            THEN (IF left.is_date THEN 1 ELSE -1)
       ELSE IF left.suffix # right.suffix
            THEN (IF left.suffix < right.suffix THEN -1 ELSE 1)
       ELSE IF left.has_tag # right.has_tag
            THEN (IF left.has_tag THEN 1 ELSE -1)
       ELSE 0
  ELSE IF left.is_date # right.is_date THEN (IF left.is_date THEN 1 ELSE -1)
  ELSE IF left.has_version # right.has_version THEN
    IF ~left.has_version
    THEN (IF left.has_tag THEN 1 ELSE -1)
    ELSE (IF right.has_tag THEN -1 ELSE 1)
  ELSE IF left.has_tag # right.has_tag THEN (IF left.has_tag THEN 1 ELSE -1)
  ELSE 0

\* A plausible slip: the tag is compared before the suffix ordinal.
CompareVersionInfoTagFirst(left, right) ==
  IF left.is_date # right.is_date THEN (IF left.is_date THEN 1 ELSE -1)
  ELSE IF left.has_version /\ right.has_version THEN
    LET c == ComparePartsFrom(left.parts, right.parts, 0,
                              Max(Len(left.parts), Len(right.parts)))
    IN IF c # 0 THEN c
       ELSE IF left.has_tag # right.has_tag
            THEN (IF left.has_tag THEN 1 ELSE -1)
       ELSE IF left.suffix # right.suffix
            THEN (IF left.suffix < right.suffix THEN -1 ELSE 1)
       ELSE 0
  ELSE IF left.has_version # right.has_version THEN
    IF ~left.has_version
    THEN (IF left.has_tag THEN 1 ELSE -1)
    ELSE (IF right.has_tag THEN -1 ELSE 1)
  ELSE IF left.has_tag # right.has_tag THEN (IF left.has_tag THEN 1 ELSE -1)
  ELSE 0

\* int CompareVersionInfo(const VersionInfo& left, const VersionInfo& right)
CompareVersionInfo(left, right) ==
  IF left.is_date # right.is_date THEN (IF left.is_date THEN 1 ELSE -1)
  ELSE IF left.has_version /\ right.has_version THEN
    LET c == ComparePartsFrom(left.parts, right.parts, 0,
                              Max(Len(left.parts), Len(right.parts)))
    IN IF c # 0 THEN c
       ELSE IF left.suffix # right.suffix
            THEN (IF left.suffix < right.suffix THEN -1 ELSE 1)
       ELSE IF left.has_tag # right.has_tag
            THEN (IF left.has_tag THEN 1 ELSE -1)
       ELSE 0
  ELSE IF left.has_version # right.has_version THEN
    IF ~left.has_version
    THEN (IF left.has_tag THEN 1 ELSE -1)
    ELSE (IF right.has_tag THEN -1 ELSE 1)
  ELSE IF left.has_tag # right.has_tag THEN (IF left.has_tag THEN 1 ELSE -1)
  ELSE 0

\* ----------------------------------------------------------- FileTimeInfo
\* GetLastWriteTime: valid = !ec; the value matters only when valid.
InvalidTime == [valid |-> FALSE, value |-> 0]
FileTimes == {InvalidTime} \cup {[valid |-> TRUE, value |-> v] : v \in 1..MaxTime}

\* A plausible slip: the later file is taken as the duplicate.
ChooseMoveIndexNewer(left, right, versions, times) ==
  LET version_cmp == CompareVersionInfo(versions[left], versions[right])
      left_time == times[left]
      right_time == times[right]
  IN IF version_cmp # 0 THEN (IF version_cmp > 0 THEN right ELSE left)
     ELSE IF left_time.valid /\ right_time.valid
             /\ left_time.value # right_time.value
          THEN (IF left_time.value < right_time.value THEN right ELSE left)
     ELSE IF left_time.valid # right_time.valid
          THEN (IF left_time.valid THEN right ELSE left)
     ELSE (IF left > right THEN left ELSE right)

\* A plausible slip: the last tie is settled by the argument order.
ChooseMoveIndexLeft(left, right, versions, times) ==
  LET version_cmp == CompareVersionInfo(versions[left], versions[right])
      left_time == times[left]
      right_time == times[right]
  IN IF version_cmp # 0 THEN (IF version_cmp > 0 THEN right ELSE left)
     ELSE IF left_time.valid /\ right_time.valid
             /\ left_time.value # right_time.value
          THEN (IF left_time.value < right_time.value THEN left ELSE right)
     ELSE IF left_time.valid # right_time.valid
          THEN (IF left_time.valid THEN right ELSE left)
     ELSE left

\* size_t ChooseMoveIndex(left, right, versions, times)
ChooseMoveIndex(left, right, versions, times) ==
  LET version_cmp == CompareVersionInfo(versions[left], versions[right])
      left_time == times[left]
      right_time == times[right]
  IN IF version_cmp # 0 THEN (IF version_cmp > 0 THEN right ELSE left)
     ELSE IF left_time.valid /\ right_time.valid
             /\ left_time.value # right_time.value
          THEN (IF left_time.value < right_time.value THEN left ELSE right)
     ELSE IF left_time.valid # right_time.valid
          THEN (IF left_time.valid THEN right ELSE left)
     ELSE (IF left > right THEN left ELSE right)

\* ------------------------------------------------ idle values of the parts
NoResult == "none"

CvIdle ==
  /\ cv_left = NoVersionInfo /\ cv_right = NoVersionInfo
  /\ cv_result = NoResult /\ cv_pc = "idle"

ChIdle == ch_left = 0 /\ ch_right = 0 /\ ch_result = NoResult /\ ch_pc = "idle"

DocIdle == version_infos = <<>> /\ mod_times = <<>>

MainIdle ==
  /\ total_files = 0 /\ load_result = <<>> /\ sim = <<>> /\ name_info = <<>>
  /\ disk_time = <<>> /\ under_dups = {} /\ dedup = FALSE
  /\ dedup_threshold = 0 /\ worker_count = 0
  /\ next_index = 0 /\ processed = 0 /\ w_pc = <<>> /\ w_index = <<>>
  /\ worker_docs = <<>> /\ m_pc = "idle" /\ files = <<>>
  /\ best_index = <<>> /\ best_score = <<>> /\ dedup_sources = <<>>
  /\ rows = <<>> /\ pair_ids = <<>> /\ status = NoResult

TkIdle ==
  /\ tk_input = <<>> /\ tk_fed = 0 /\ tk_pc = "idle" /\ tk_split = FALSE
  /\ pending = <<>> /\ token = <<>> /\ counts = <<>> /\ totWords = 0

StIdle == st_op = NoResult /\ st_given = <<>> /\ st_after = <<>> /\ st_calls = 0

DcIdle ==
  dc_index = 0 /\ dc_final = FALSE /\ dc_result = NoResult /\ dc_pc = "idle"

FdIdle ==
  /\ fd_left = <<>> /\ fd_right = <<>> /\ fd_stats_left = NoResult
  /\ fd_stats_right = NoResult /\ fd_dist = NoResult /\ fd_pc = "idle"

SimIdle ==
  /\ sm_left = NoResult /\ sm_right = NoResult /\ sm_tfidf = NoResult
  /\ sm_hash_left = NoResult /\ sm_hash_right = NoResult
  /\ sm_distance = NoResult /\ sm_similarity = NoResult
  /\ sm_use_hash = FALSE /\ sm_pc = "idle"

RfIdle ==
  /\ rf_ext = NoResult /\ rf_no_convert = FALSE /\ rf_prior = 0
  /\ rf_attempt = NoResult /\ rf_text = <<>> /\ rf_finished = FALSE
  /\ rf_result = NoResult /\ rf_pc = "idle"

MtIdle ==
  /\ mt_can_open = FALSE /\ mt_paths = 0 /\ workerCount = 0
  /\ bq = NoResult /\ mt_pushed = 0 /\ mt_w_pc = <<>> /\ mt_w_path = <<>>
  /\ workerDocs = <<>> /\ mt_joined = {} /\ mt_pc = "idle"
  /\ mt_status = NoResult

IoIdle == RfIdle /\ MtIdle

\* The parts above at rest, in the classic locale.
ExtIdle == locale = "C" /\ StIdle /\ DcIdle /\ FdIdle /\ SimIdle /\ IoIdle

\* ------------------------------------------- SpecCompare: CompareVersionInfo
InitCompare ==
  /\ cv_left \in VersionInfos /\ cv_right \in VersionInfos
  /\ cv_result = NoResult /\ cv_pc = "call"
  /\ ChIdle /\ DocIdle /\ TkIdle /\ MainIdle /\ ExtIdle

CompareStep ==
  /\ cv_pc = "call"
  /\ cv_result' = CompareVersionInfo(cv_left, cv_right)
  /\ cv_pc' = "returned"
  /\ UNCHANGED <<cv_left, cv_right, chvars, docvars, tkvars, mainvars,
                 extvars>>

NextCompare == CompareStep

SpecCompare == InitCompare /\ [][NextCompare]_vars

\* ----------------------------------------------------- claims on the ordering
Sign(x) == IF x < 0 THEN -1 ELSE IF x > 0 THEN 1 ELSE 0

Returned == cv_pc = "returned"

\* Both descriptors of the same type, both with numeric components.
BothNumbered ==
  /\ cv_left.is_date = cv_right.is_date
  /\ cv_left.has_version /\ cv_right.has_version

\* Two non-date descriptors of which exactly one has numeric components.
OneNumbered ==
  /\ ~cv_left.is_date /\ ~cv_right.is_date
  /\ cv_left.has_version # cv_right.has_version

\* C8: a date-type descriptor compares above every non-date descriptor,
\* whatever the components, suffix and tag of either side.
C8_DateOutranksNonDate ==
  Returned =>
    /\ (cv_left.is_date /\ ~cv_right.is_date) => cv_result = 1
    /\ (~cv_left.is_date /\ cv_right.is_date) => cv_result = -1

\* A date with the smallest components was compared with a tagged version
\* whose first component is larger, and with a tag-only descriptor.
C8_Witness ==
  /\ Returned /\ cv_left.is_date /\ ~cv_right.is_date /\ cv_right.has_version
  /\ cv_right.has_tag /\ cv_right.parts[1] > cv_left.parts[1] /\ cv_result = 1

\* The indices at which the components differ, missing ones taken as 0.
DifferingParts ==
  {i \in 0..(Max(Len(cv_left.parts), Len(cv_right.parts)) - 1) :
     PartAt(cv_left.parts, i) # PartAt(cv_right.parts, i)}

FirstDiffering == CHOOSE i \in DifferingParts : \A k \in DifferingParts : i <= k

\* C9: same type, both numbered: the first differing component decides
\* (missing trailing components are 0), then the larger suffix ordinal, then
\* the tagged descriptor, otherwise 0.
C9_NumberedOrder ==
  (Returned /\ BothNumbered) =>
    cv_result =
      IF DifferingParts # {}
      THEN Sign(PartAt(cv_left.parts, FirstDiffering)
                  - PartAt(cv_right.parts, FirstDiffering))
      ELSE IF cv_left.suffix # cv_right.suffix
           THEN Sign(cv_left.suffix - cv_right.suffix)
      ELSE IF cv_left.has_tag # cv_right.has_tag
           THEN (IF cv_left.has_tag THEN 1 ELSE -1)
      ELSE 0

\* Component lists of different lengths compared equal (1 against 1.0).
C9_Witness ==
  /\ Returned /\ BothNumbered /\ Len(cv_left.parts) # Len(cv_right.parts)
  /\ cv_result = 0

\* The descriptor without components and the one with them, and the result
\* seen from the side without components.
Lacking == IF cv_left.has_version THEN cv_right ELSE cv_left
Numbered == IF cv_left.has_version THEN cv_left ELSE cv_right
LackingResult == IF cv_left.has_version THEN -cv_result ELSE cv_result

\* C10 as claimed: the tag-less side without components ranks below the
\* versioned one, and the tag-only side ranks above it only if the versioned
\* side has no tag.
C10_TagOnlyWinsOnlyOverUntagged ==
  (Returned /\ OneNumbered) =>
    LackingResult = IF Lacking.has_tag /\ ~Numbered.has_tag THEN 1 ELSE -1

\* C10 as amended: the side without components is ranked by its own has_tag
\* alone: tag-less it ranks below the versioned one, tag-only it ranks above
\* it whether or not the versioned side has a tag.
C10_LackingRankedByOwnTag ==
  (Returned /\ OneNumbered) =>
    LackingResult = IF Lacking.has_tag THEN 1 ELSE -1

\* A tag-only descriptor was compared with a tagged versioned one.
C10_Witness ==
  /\ Returned /\ OneNumbered /\ Lacking.has_tag /\ Numbered.has_tag
  /\ LackingResult = 1

\* ------------------------------- SpecOrder: the ordering over three descriptors
MaxOrderParts == 2   \* numeric components of a descriptor compared in threes
MaxOrderPart == 1    \* largest value of such a component

\* The descriptors compared in threes: those of VersionInfos within the two
\* bounds above, and every date.
OrderInfos ==
  {NoVersionInfo, TagOnlyInfo} \cup DateInfos \cup
  {info \in NumberedInfos :
     /\ Len(info.parts) <= MaxOrderParts
     /\ \A k \in DOMAIN info.parts : info.parts[k] <= MaxOrderPart}

InitOrder ==
  /\ cv_left \in OrderInfos /\ cv_right \in OrderInfos
  /\ cv_result = NoResult /\ cv_pc = "call"
  /\ ChIdle /\ DocIdle /\ TkIdle /\ MainIdle /\ ExtIdle

SpecOrder == InitOrder /\ [][NextCompare]_vars

\* C26: the result for (L, R) is the negative of the result for (R, L), a
\* descriptor compares equal to itself, and L >= R with R >= S gives L >= S
\* for every descriptor S.
C26_OneConsistentOrdering ==
  Returned =>
    /\ cv_result = 0 - CompareVersionInfo(cv_right, cv_left)
    /\ cv_left = cv_right => cv_result = 0
    /\ cv_result >= 0 =>
         \A third \in OrderInfos :
           CompareVersionInfo(cv_right, third) >= 0 =>
             CompareVersionInfo(cv_left, third) >= 0

\* A tag-only descriptor was compared with an untagged versioned one, which
\* in turn is above the descriptor without anything.
C26_Witness ==
  /\ Returned /\ cv_left = TagOnlyInfo /\ cv_result = 1
  /\ cv_right.has_version /\ ~cv_right.is_date /\ ~cv_right.has_tag
  /\ CompareVersionInfo(cv_right, NoVersionInfo) = 1

\* --------------------------------------------- SpecChoose: ChooseMoveIndex
\* The descriptors the files of a small corpus carry: nothing, a tag, v1, v2,
\* v1 with a tag, a date.
SampleInfos ==
  {NoVersionInfo, TagOnlyInfo,
   [NoVersionInfo EXCEPT !.has_version = TRUE, !.parts = <<1>>],
   [NoVersionInfo EXCEPT !.has_version = TRUE, !.parts = <<2>>],
   [NoVersionInfo EXCEPT !.has_version = TRUE, !.parts = <<1>>, !.has_tag = TRUE],
   [NoVersionInfo EXCEPT !.has_version = TRUE, !.is_date = TRUE,
                         !.parts = <<1, 1, 0, 0, 0, 0>>]}

InitChoose ==
  /\ \E n \in 2..MaxDocs :
       /\ version_infos \in [0..(n - 1) -> SampleInfos]
       /\ mod_times \in [0..(n - 1) -> FileTimes]
  /\ ch_left = 0 /\ ch_right = 0 /\ ch_result = NoResult /\ ch_pc = "call"
  /\ CvIdle /\ TkIdle /\ MainIdle /\ ExtIdle

ChooseStep ==
  /\ ch_pc = "call"
  /\ \E l \in DOMAIN version_infos, r \in DOMAIN version_infos :
       /\ l # r
       /\ ch_left' = l /\ ch_right' = r
       /\ ch_result' = ChooseMoveIndex(l, r, version_infos, mod_times)
  /\ ch_pc' = "returned"
  /\ UNCHANGED <<cvvars, docvars, tkvars, mainvars, extvars>>

NextChoose == ChooseStep

SpecChoose == InitChoose /\ [][NextChoose]_vars

\* C3: ChooseMoveIndex returns one of its arguments: the lower-ranked file when
\* the descriptors compare unequal; else the earlier of two differing valid
\* times, or the file whose time is invalid when exactly one is valid; else
\* the larger index.  An invalid time yields a result like any other.
C3_ChooseTiers ==
  ch_pc = "returned" =>
    LET c == CompareVersionInfo(version_infos[ch_left], version_infos[ch_right])
        lt == mod_times[ch_left]
        rt == mod_times[ch_right]
    IN /\ ch_result \in {ch_left, ch_right}
       /\ c > 0 => ch_result = ch_right
       /\ c < 0 => ch_result = ch_left
       /\ (c = 0 /\ lt.valid /\ rt.valid /\ lt.value < rt.value)
            => ch_result = ch_left
       /\ (c = 0 /\ lt.valid /\ rt.valid /\ rt.value < lt.value)
            => ch_result = ch_right
       /\ (c = 0 /\ lt.valid /\ ~rt.valid) => ch_result = ch_right
       /\ (c = 0 /\ ~lt.valid /\ rt.valid) => ch_result = ch_left
       /\ (c = 0 /\ lt.valid = rt.valid /\ (lt.valid => lt.value = rt.value))
            => ch_result = Max(ch_left, ch_right)

\* Equal descriptors, both times valid, the left file earlier and at the
\* smaller index: the time tier returned it against the index tier.
C3_Witness ==
  /\ ch_pc = "returned"
  /\ CompareVersionInfo(version_infos[ch_left], version_infos[ch_right]) = 0
  /\ mod_times[ch_left].valid /\ mod_times[ch_right].valid
  /\ mod_times[ch_left].value < mod_times[ch_right].value
  /\ ch_left < ch_right /\ ch_result = ch_left

\* ------------------------------------------------------------- UTF-8 decoding
kReplacementChar == 65533

\* (c & 0xC0) == 0x80
IsContinuation(c) == c >= 128 /\ c < 192

\* One result of DecodeUtf8: whether a codepoint was produced, the codepoint,
\* and the index after it (unchanged when nothing was produced).
Decoded(cp, idx) == [ok |-> TRUE, out |-> cp, index |-> idx]
Deferred(idx) == [ok |-> FALSE, out |-> 0, index |-> idx]
Replaced(idx) == Decoded(kReplacementChar, idx + 1)

\* bool DecodeUtf8(data, index, out, final_chunk), data a sequence of bytes and
\* index 0-based as in the code; shifts and masks written as arithmetic.
DecodeUtf8Body(data, index, final_chunk) ==
  LET len == Len(data)
      c0 == data[index + 1]
      c1 == data[index + 2]
      c2 == data[index + 3]
      c3 == data[index + 4]
  IN IF index >= len THEN Deferred(index)
     ELSE IF c0 < 128 THEN Decoded(c0, index + 1)
     ELSE IF c0 < 194 THEN Replaced(index)
     ELSE IF c0 < 224 THEN
       IF index + 1 >= len
       THEN (IF final_chunk THEN Replaced(index) ELSE Deferred(index))
       ELSE IF ~IsContinuation(c1) THEN Replaced(index)
       ELSE Decoded((c0 % 32) * 64 + (c1 % 64), index + 2)
     ELSE IF c0 < 240 THEN
       IF index + 2 >= len
       THEN (IF final_chunk THEN Replaced(index) ELSE Deferred(index))
       ELSE IF ~IsContinuation(c1) \/ ~IsContinuation(c2) THEN Replaced(index)
       ELSE IF c0 = 224 /\ c1 < 160 THEN Replaced(index)
       ELSE IF c0 = 237 /\ c1 >= 160 THEN Replaced(index)
       ELSE Decoded((c0 % 16) * 4096 + (c1 % 64) * 64 + (c2 % 64), index + 3)
     ELSE IF c0 < 245 THEN
       IF index + 3 >= len
       THEN (IF final_chunk THEN Replaced(index) ELSE Deferred(index))
       ELSE IF ~IsContinuation(c1) \/ ~IsContinuation(c2) \/ ~IsContinuation(c3)
            THEN Replaced(index)
       ELSE IF c0 = 240 /\ c1 < 144 THEN Replaced(index)
       ELSE IF c0 = 244 /\ c1 >= 144 THEN Replaced(index)
       ELSE Decoded((c0 % 8) * 262144 + (c1 % 64) * 4096 + (c2 % 64) * 64
                      + (c3 % 64), index + 4)
     ELSE Replaced(index)

\* A plausible slip: a truncated sequence is resolved at once, in every chunk.
DecodeUtf8NoDefer(data, index, final_chunk) == DecodeUtf8Body(data, index, TRUE)

DecodeUtf8(data, index, final_chunk) == DecodeUtf8Body(data, index, final_chunk)

\* void AppendUtf8(std::string& out, char32_t codepoint)
AppendUtf8(out, codepoint) ==
  IF codepoint <= 127 THEN Append(out, codepoint)
  ELSE IF codepoint <= 2047
       THEN out \o <<192 + ((codepoint \div 64) % 32), 128 + (codepoint % 64)>>
  ELSE IF codepoint <= 65535
       THEN out \o <<224 + ((codepoint \div 4096) % 16),
                     128 + ((codepoint \div 64) % 64), 128 + (codepoint % 64)>>
  ELSE IF codepoint <= 1114111
       THEN out \o <<240 + ((codepoint \div 262144) % 8),
                     128 + ((codepoint \div 4096) % 64),
                     128 + ((codepoint \div 64) % 64), 128 + (codepoint % 64)>>
  ELSE out \o <<239, 191, 189>>

\* WCHAR_MAX of a platform with a 32-bit wchar_t.
WCharMax == 2147483647

\* MakeLocale(): std::locale("") is the locale of the environment, the classic
\* locale when none is set or the named one cannot be built.
Locales == {"C", "C.UTF-8"}

\* What the ctype<wchar_t> facet of "C.UTF-8" classifies as space, punct or
\* cntrl beyond the ASCII range, among the codepoints the texts of the model
\* decode to: the C1 controls, U+00A0, U+00A9, U+2014, U+2A69.
UnicodeBoundary(cp) ==
  \/ (cp >= 128 /\ cp <= 159)
  \/ cp \in {160, 169, 8212, 10857}

\* _ctype.is(space | punct | cntrl, wch): the classic locale classifies the
\* ASCII range only.
IsBoundary(cp) ==
  \/ cp <= 47
  \/ (cp >= 58 /\ cp <= 64)
  \/ (cp >= 91 /\ cp <= 96)
  \/ (cp >= 123 /\ cp <= 127)
  \/ (locale # "C" /\ UnicodeBoundary(cp))

\* A plausible slip: the codepoint is appended as it was decoded.
ToLowerOmitted(cp) == cp

\* _ctype.tolower(wch): the classic locale folds A-Z only; "C.UTF-8" also
\* folds the capital letters of Latin-1 (U+00C0 .. U+00DE without U+00D7).
ToLower(cp) ==
  IF cp >= 65 /\ cp <= 90 THEN cp + 32
  ELSE IF locale # "C" /\ cp >= 192 /\ cp <= 222 /\ cp # 215 THEN cp + 32
  ELSE cp

\* The stop words that can be spelled with the bytes of ByteValues: "a".
StopWords == {<<97>>}

IsStopWord(t) == t \in StopWords

\* ------------------------------------------------- Statistics and tokenizer
\* The tokenizer and its Statistics as one record.
TokState(p, t, c, n) == [pending |-> p, token |-> t, counts |-> c, totWords |-> n]

EmptyCounts == <<>>

\* A plausible slip: a stop word is dropped after it was counted in the total.
AddTokenCountsStopWords(st) ==
  IF st.token = <<>> THEN st
  ELSE IF IsStopWord(st.token)
       THEN [st EXCEPT !.totWords = @ + 1, !.token = <<>>]
  ELSE [st EXCEPT
          !.counts = IF st.token \in DOMAIN st.counts
                     THEN [st.counts EXCEPT ![st.token] = @ + 1]
                     ELSE st.counts @@ (st.token :> 1),
          !.totWords = @ + 1,
          !.token = <<>>]

\* A plausible slip: the token is counted and left as it is.
AddTokenKeepsToken(st) ==
  IF st.token = <<>> THEN st
  ELSE IF IsStopWord(st.token) THEN st
  ELSE [st EXCEPT
          !.counts = IF st.token \in DOMAIN st.counts
                     THEN [st.counts EXCEPT ![st.token] = @ + 1]
                     ELSE st.counts @@ (st.token :> 1),
          !.totWords = @ + 1]

\* void Statistics::AddToken(std::string& token)
AddToken(st) ==
  IF st.token = <<>> THEN st
  ELSE IF IsStopWord(st.token) THEN [st EXCEPT !.token = <<>>]
  ELSE [st EXCEPT
          !.counts = IF st.token \in DOMAIN st.counts
                     THEN [st.counts EXCEPT ![st.token] = @ + 1]
                     ELSE st.counts @@ (st.token :> 1),
          !.totWords = @ + 1,
          !.token = <<>>]

\* A plausible slip: a decoded U+FFFD is treated as any other codepoint.
LoopBodyKeepsReplacement(st, index, final_chunk) ==
  LET d == DecodeUtf8(st.pending, index, final_chunk)
  IN IF ~d.ok
     THEN [ok |-> FALSE, st |-> st, index |-> index, out |-> 0,
           gave |-> FALSE, handed |-> <<>>]
     ELSE IF d.out <= WCharMax /\ IsBoundary(d.out)
          THEN [ok |-> TRUE, st |-> AddToken(st), index |-> d.index,
                out |-> d.out, gave |-> TRUE, handed |-> st.token]
     ELSE LET cp == IF d.out <= WCharMax THEN ToLower(d.out) ELSE d.out
          IN [ok |-> TRUE, st |-> [st EXCEPT !.token = AppendUtf8(@, cp)],
              index |-> d.index, out |-> d.out, gave |-> FALSE,
              handed |-> <<>>]

\* One pass through the body of the while loop of ProcessBuffer at index:
\* whether a codepoint was decoded, the state and the index after it, the
\* codepoint, and the token handed to AddToken if one was.
LoopBody(st, index, final_chunk) ==
  LET d == DecodeUtf8(st.pending, index, final_chunk)
  IN IF ~d.ok
     THEN [ok |-> FALSE, st |-> st, index |-> index, out |-> 0,
           gave |-> FALSE, handed |-> <<>>]
     ELSE IF d.out = kReplacementChar
          THEN [ok |-> TRUE, st |-> AddToken(st), index |-> d.index,
                out |-> d.out, gave |-> TRUE, handed |-> st.token]
     ELSE IF d.out <= WCharMax /\ IsBoundary(d.out)
          THEN [ok |-> TRUE, st |-> AddToken(st), index |-> d.index,
                out |-> d.out, gave |-> TRUE, handed |-> st.token]
     ELSE LET cp == IF d.out <= WCharMax THEN ToLower(d.out) ELSE d.out
          IN [ok |-> TRUE, st |-> [st EXCEPT !.token = AppendUtf8(@, cp)],
              index |-> d.index, out |-> d.out, gave |-> FALSE,
              handed |-> <<>>]

\* The while loop of ProcessBuffer from index on: the state and the index at
\* which the loop ends.
RECURSIVE ProcessLoop(_, _, _)
ProcessLoop(st, index, final_chunk) ==
  IF index >= Len(st.pending) THEN [st |-> st, index |-> index]
  ELSE LET b == LoopBody(st, index, final_chunk)
       IN IF ~b.ok THEN [st |-> st, index |-> index]
          ELSE ProcessLoop(b.st, b.index, final_chunk)

\* void StatisticsTokenizer::ProcessBuffer(bool final_chunk)
ProcessBuffer(st, final_chunk) ==
  LET r == ProcessLoop(st, 0, final_chunk)
      erased == SubSeq(r.st.pending, r.index + 1, Len(r.st.pending))
  IN [r.st EXCEPT !.pending = IF final_chunk THEN <<>> ELSE erased]

\* void StatisticsTokenizer::AddChunk(const char* data, size_t len)
AddChunk(st, data) == ProcessBuffer([st EXCEPT !.pending = @ \o data], FALSE)

\* void StatisticsTokenizer::Finish()
Finish(st) == AddToken(ProcessBuffer(st, TRUE))

\* ------------------------------------------- SpecTokenizer: chunked feeding
\* The bytes texts are made of: space, 'B', 'a', 'b', a continuation byte, and
\* the lead bytes of a two-, a three- and a four-byte sequence.
ByteValues == {32, 66, 97, 98, 169, 195, 226, 240}

Texts == UNION {[1..n -> ByteValues] : n \in 0..MaxLen}

CurrentTok == TokState(pending, token, counts, totWords)

SetTok(st) ==
  /\ pending' = st.pending /\ token' = st.token
  /\ counts' = st.counts /\ totWords' = st.totWords

InitTokenizer ==
  /\ tk_input \in Texts /\ tk_fed = 0 /\ tk_pc = "feeding" /\ tk_split = FALSE
  /\ pending = <<>> /\ token = <<>> /\ counts = EmptyCounts /\ totWords = 0
  /\ CvIdle /\ ChIdle /\ DocIdle /\ MainIdle
  /\ locale \in Locales /\ StIdle /\ DcIdle /\ FdIdle /\ SimIdle /\ IoIdle

\* The caller hands the next len bytes of the text to AddChunk.
AddChunkStep ==
  /\ tk_pc = "feeding"
  /\ \E len \in 1..(Len(tk_input) - tk_fed) :
       /\ SetTok(AddChunk(CurrentTok, SubSeq(tk_input, tk_fed + 1, tk_fed + len)))
       /\ tk_fed' = tk_fed + len
  /\ tk_split' = (tk_split \/ (pending' # <<>> /\ tk_fed' < Len(tk_input)))
  /\ UNCHANGED <<tk_input, tk_pc, cvvars, chvars, docvars, mainvars, extvars>>

\* The caller ends the text once all of it was handed over, and may call
\* Finish a second time.
FinishStep ==
  /\ tk_pc \in {"feeding", "finished"} /\ tk_fed = Len(tk_input)
  /\ SetTok(Finish(CurrentTok))
  /\ tk_pc' = IF tk_pc = "feeding" THEN "finished" ELSE "finished twice"
  /\ UNCHANGED <<tk_input, tk_fed, tk_split, cvvars, chvars, docvars, mainvars,
                 extvars>>

NextTokenizer == AddChunkStep \/ FinishStep

SpecTokenizer == InitTokenizer /\ [][NextTokenizer]_vars

\* The statistics of the whole text given in one AddChunk followed by Finish.
OneShot(text) == Finish(AddChunk(TokState(<<>>, <<>>, EmptyCounts, 0), text))

\* C6: however the text was cut into chunks, after Finish the term counts and
\* the total equal those of the one-chunk run.
C6_ChunkingInvariant ==
  tk_pc = "finished" =>
    /\ counts = OneShot(tk_input).counts
    /\ totWords = OneShot(tk_input).totWords

\* Finish has run on the two bytes of U+00E9 handed over one byte at a time:
\* the lead byte was held back, and the character was counted as one term.
C6_Witness ==
  /\ tk_pc = "finished" /\ tk_split
  /\ tk_input = <<195, 169>>
  /\ counts = (<<195, 169>> :> 1) /\ totWords = 1

\* The bytes handed to AddChunk so far, and those of them no longer pending.
Fed == SubSeq(tk_input, 1, tk_fed)
Consumed == SubSeq(tk_input, 1, tk_fed - Len(pending))

\* The number of bytes the lead byte c0 of a multi-byte sequence announces.
Announced(c0) == IF c0 < 224 THEN 2 ELSE IF c0 < 240 THEN 3 ELSE 4

IsLead(c0) == c0 >= 194 /\ c0 <= 244

\* What the bytes no longer pending produce by themselves, read as a whole
\* text: nothing of it stems from the pending bytes.
ConsumedAlone == ProcessBuffer(TokState(Consumed, <<>>, EmptyCounts, 0), TRUE)

\* The state after an AddChunk call.
PendingDeferred ==
  /\ Len(pending) <= tk_fed
  /\ pending = SubSeq(tk_input, tk_fed - Len(pending) + 1, tk_fed)
  /\ pending # <<>> =>
       /\ Len(pending) <= 3 /\ IsLead(pending[1])
       /\ Len(pending) < Announced(pending[1])
  /\ IsLead(tk_input[tk_fed]) => pending # <<>>
  /\ token = ConsumedAlone.token /\ counts = ConsumedAlone.counts
  /\ totWords = ConsumedAlone.totWords

\* Finish on a truncated prefix: its lead byte becomes a placeholder, which
\* ends the token collected before it.
FinishResolves ==
  tk_pc = "feeding" /\ tk_pc' = "finished" /\ pending # <<>> =>
    LET flushed == AddToken(CurrentTok)
        rest == [flushed EXCEPT !.pending = Tail(pending)]
        after == Finish(rest)
    IN counts' = after.counts /\ totWords' = after.totWords

\* C21: after every AddChunk the pending bytes are none, or the last bytes
\* handed over forming an incomplete sequence of at most 3 bytes headed by a
\* lead byte in 0xC2..0xF4, and nothing was produced for them; a trailing
\* lead byte is always kept pending; Finish resolves the prefix to a
\* placeholder and leaves pending and token empty; a second Finish changes
\* nothing.
C21_TruncatedPrefixWaitsForFinish ==
  /\ [](tk_pc = "feeding" /\ tk_fed > 0 => PendingDeferred)
  /\ [](tk_pc \in {"finished", "finished twice"} =>
         pending = <<>> /\ token = <<>>)
  /\ [][FinishResolves]_vars
  /\ [][tk_pc = "finished" =>
         UNCHANGED <<pending, token, counts, totWords>>]_vars

\* Finish ran twice on "b" followed by the first three bytes of a four-byte
\* sequence, which one AddChunk had kept pending: "b" was counted once.
C21_Witness ==
  /\ tk_pc = "finished twice" /\ tk_split
  /\ tk_input = <<98, 240, 169, 169>>
  /\ counts = (<<98>> :> 1) /\ totWords = 1

\* =================================================== main() of MostSimilar.cpp
\* 1.0 in the model's score unit of 0.5e-8; also the default dedup_threshold.
One == 200000000
\* const double epsilon = 0.5e-8
Epsilon == 1
\* const double output_pair_threshold = 1e-8
OutputPairThreshold == 2
\* best_score(n, -1.0)
NoScore == -One
\* The row of a document without a match has an empty match path.
NoPath == -1

\* A plausible slip: the threshold is widened by a whole unit in the eighth
\* decimal.
IsDedupScoreWide(score, threshold) == score + 2 * Epsilon >= threshold

\* bool IsDedupScore(double score, double threshold)
IsDedupScore(score, threshold) == score + Epsilon >= threshold

\* The unordered pairs of the documents fl, each named by its two files.
FilePairs(fl) ==
  {p \in {fl[a] : a \in DOMAIN fl} \X {fl[b] : b \in DOMAIN fl} : p[1] < p[2]}

\* The score of two documents: the value TfIdfCosineSimilarity (or, with
\* --hash, SimHashSimilarity) returned for their pair.
ScoreOf(sm, fa, fb) == IF fa < fb THEN sm[<<fa, fb>>] ELSE sm[<<fb, fa>>]

\* ------------------------------------------------------------ merge and sort
\* docs after the two merge loops: the workers' vectors, in worker order.
RECURSIVE ConcatDocs(_, _)
ConcatDocs(wd, w) ==
  IF w > Len(wd) THEN <<>> ELSE wd[w] \o ConcatDocs(wd, w + 1)

\* One element put into a sequence sorted by index.
RECURSIVE InsertByIndex(_, _)
InsertByIndex(sorted, x) ==
  IF sorted = <<>> THEN <<x>>
  ELSE IF x < Head(sorted) THEN <<x>> \o sorted
  ELSE <<Head(sorted)>> \o InsertByIndex(Tail(sorted), x)

RECURSIVE SortedByIndex(_)
SortedByIndex(docs) ==
  IF docs = <<>> THEN <<>>
  ELSE InsertByIndex(SortedByIndex(Tail(docs)), Head(docs))

\* A plausible slip: the merged documents are left in worker order.
SortDocsOmitted(docs) == docs

\* std::sort(docs.begin(), docs.end(), left.index < right.index); the indices
\* are distinct, so the result is the one ascending order.
SortDocs(docs) == SortedByIndex(docs)

\* A sequence as a vector with the code's 0-based positions.
AsVector(sq) == [p \in 0..(Len(sq) - 1) |-> sq[p + 1]]

\* --------------------------------------------------------- all-pairs scoring
\* The scores drawn for a pair: 0, 1 and the value one epsilon below 1.
Scores == {0, One - 1, One}

\* A plausible slip: a tie replaces the stored match.
ImprovesOrTies(score, stored) == score >= stored

\* A plausible slip: a score of 0 is taken for no match.
ImprovesAboveZero(score, stored) == score > stored /\ score > 0

\* score > best_score[...]
Improves(score, stored) == score > stored

\* The two nested loops from (i, j) on; best is the pair of vectors
\* best_index, best_score.
RECURSIVE ScoreLoop(_, _, _, _, _)
ScoreLoop(i, j, fl, sm, best) ==
  LET n == Cardinality(DOMAIN fl)
  IN IF i >= n THEN best
     ELSE IF j >= n THEN ScoreLoop(i + 1, i + 2, fl, sm, best)
     ELSE
       LET score == ScoreOf(sm, fl[i], fl[j])
           b1 == IF Improves(score, best.score[i])
                 THEN [index |-> [best.index EXCEPT ![i] = j],
                       score |-> [best.score EXCEPT ![i] = score]]
                 ELSE best
           b2 == IF Improves(score, b1.score[j])
                 THEN [index |-> [b1.index EXCEPT ![j] = i],
                       score |-> [b1.score EXCEPT ![j] = score]]
                 ELSE b1
       IN ScoreLoop(i, j + 1, fl, sm, b2)

\* best_index(n, n), best_score(n, -1.0) and the O(n^2) comparison.
BestMatches(fl, sm) ==
  LET n == Cardinality(DOMAIN fl)
  IN ScoreLoop(0, 1, fl, sm,
               [index |-> [p \in DOMAIN fl |-> n],
                score |-> [p \in DOMAIN fl |-> NoScore]])

\* ------------------------------------------------------------ dedup selection
\* The documents with what the later passes read of them.
Table(fl, vi, mt, bi, bs) ==
  [n |-> Cardinality(DOMAIN fl), files |-> fl, versions |-> vi, times |-> mt,
   best_index |-> bi, best_score |-> bs]

\* bool IsUnderPath(candidate, duplicates_dir)
IsUnderPath(file, under) == file \in under

\* One iteration of the dedup loop: the position whose file it hands to
\* seen.insert, or t.n when it ends in a continue.
DedupCandidate(i, t, threshold, under) ==
  IF t.best_index[i] >= t.n THEN t.n
  ELSE IF ~IsDedupScore(t.best_score[i], threshold) THEN t.n
  ELSE
    LET match_index == t.best_index[i]
    IN IF /\ t.best_index[match_index] = i
          /\ IsDedupScore(t.best_score[match_index], threshold)
          /\ i # match_index
          /\ ChooseMoveIndex(i, match_index, t.versions, t.times) # i
       THEN t.n
       ELSE IF IsUnderPath(t.files[match_index], under) THEN t.n
       ELSE match_index

\* The dedup loop from i on; seen holds the normalized paths, which are as
\* distinct as the files.
RECURSIVE DedupLoop(_, _, _, _, _, _)
DedupLoop(i, t, threshold, under, seen, sources) ==
  IF i >= t.n THEN sources
  ELSE
    LET c == DedupCandidate(i, t, threshold, under)
    IN IF c >= t.n \/ t.files[c] \in seen
       THEN DedupLoop(i + 1, t, threshold, under, seen, sources)
       ELSE DedupLoop(i + 1, t, threshold, under, seen \cup {t.files[c]},
                      Append(sources, t.files[c]))

\* dedup_sources after the if (dedup) block.
DedupSources(t, on, threshold, under) ==
  IF on THEN DedupLoop(0, t, threshold, under, {}, <<>>) ELSE <<>>

\* ------------------------------------------------------------------- rows
\* A plausible slip: the key is left in the order of the arguments.
GetPairIdAsGiven(ids, left, right) ==
  LET key == <<left, right>>
  IN IF key \in DOMAIN ids
     THEN [ids |-> ids, id |-> ids[key]]
     ELSE LET next_id == Cardinality(DOMAIN ids) + 1
          IN [ids |-> ids @@ (key :> next_id), id |-> next_id]

\* get_pair_id(left, right): the map after the call and the id returned.
GetPairId(ids, left, right) ==
  LET key == IF right < left THEN <<right, left>> ELSE <<left, right>>
  IN IF key \in DOMAIN ids
     THEN [ids |-> ids, id |-> ids[key]]
     ELSE LET next_id == Cardinality(DOMAIN ids) + 1
          IN [ids |-> ids @@ (key :> next_id), id |-> next_id]

\* Whether the row loop treats i and its best match as a reciprocal pair.
IsOutputPair(i, t) ==
  /\ t.best_index[i] < t.n
  /\ t.best_index[t.best_index[i]] = i
  /\ IsDedupScore(t.best_score[i], OutputPairThreshold)
  /\ IsDedupScore(t.best_score[t.best_index[i]], OutputPairThreshold)

\* The row loop from i on; acc holds rows and pair_ids.  Paths are masked one
\* to one, so a row names its files.
RECURSIVE RowLoop(_, _, _)
RowLoop(i, t, acc) ==
  IF i >= t.n THEN acc
  ELSE
    LET match_index == t.best_index[i]
    IN IF IsOutputPair(i, t)
       THEN LET duplicate_index ==
                  ChooseMoveIndex(i, match_index, t.versions, t.times)
                keeper_index ==
                  IF duplicate_index = i THEN match_index ELSE i
                g == GetPairId(acc.pair_ids, keeper_index, duplicate_index)
            IN IF i # keeper_index THEN RowLoop(i + 1, t, acc)
               ELSE RowLoop(i + 1, t,
                      [rows |-> Append(acc.rows,
                                  [file |-> t.files[keeper_index],
                                   match |-> t.files[duplicate_index],
                                   score |-> t.best_score[keeper_index],
                                   pair_id |-> g.id]),
                       pair_ids |-> g.ids])
       ELSE LET g == IF match_index < t.n
                     THEN GetPairId(acc.pair_ids, i, match_index)
                     ELSE GetPairId(acc.pair_ids, i, i)
            IN RowLoop(i + 1, t,
                 [rows |-> Append(acc.rows,
                             [file |-> t.files[i],
                              match |-> IF match_index < t.n
                                        THEN t.files[match_index] ELSE NoPath,
                              score |-> t.best_score[i],
                              pair_id |-> g.id]),
                  pair_ids |-> g.ids])

\* rows in construction order, with the pair_ids map.
BuiltRows(t) == RowLoop(0, t, [rows |-> <<>>, pair_ids |-> <<>>])

\* A plausible slip: a row is put in front of the rows of equal score.
RECURSIVE InsertRowBeforeTies(_, _)
InsertRowBeforeTies(sorted, r) ==
  IF sorted = <<>> THEN <<r>>
  ELSE IF r.score >= Head(sorted).score THEN <<r>> \o sorted
  ELSE <<Head(sorted)>> \o InsertRowBeforeTies(Tail(sorted), r)

\* One row put into a sequence sorted by descending score, behind the rows of
\* equal score.
RECURSIVE InsertRow(_, _)
InsertRow(sorted, r) ==
  IF sorted = <<>> THEN <<r>>
  ELSE IF r.score > Head(sorted).score THEN <<r>> \o sorted
  ELSE <<Head(sorted)>> \o InsertRow(Tail(sorted), r)

\* std::stable_sort(rows, left.score > right.score)
RECURSIVE StableSortRows(_)
StableSortRows(rs) ==
  IF rs = <<>> THEN <<>>
  ELSE InsertRow(StableSortRows(SubSeq(rs, 1, Len(rs) - 1)), rs[Len(rs)])

\* ------------------------------------------------------------ loader threads
MaxFiles == 3      \* files found by the directory scan
MaxWorkers == 2    \* worker threads

Workers == 1..worker_count

othervars == <<cvvars, chvars, tkvars, extvars>>

\* A plausible slip: the counter is incremented before it is read.
FetchPreIncrement(w) ==
  /\ w_pc[w] = "fetch"
  /\ next_index' = next_index + 1
  /\ w_index' = [w_index EXCEPT ![w] = IF next_index + 1 >= total_files
                                        THEN 0 ELSE next_index + 1]
  /\ w_pc' = [w_pc EXCEPT ![w] = IF next_index + 1 >= total_files
                                  THEN "done" ELSE "load"]
  /\ UNCHANGED <<inputvars, processed, worker_docs, m_pc, files, docvars,
                 outvars, othervars>>

\* const size_t index = next_index.fetch_add(1); if (index >= total_files) break;
Fetch(w) ==
  /\ w_pc[w] = "fetch"
  /\ next_index' = next_index + 1
  /\ w_index' = [w_index EXCEPT ![w] = IF next_index >= total_files
                                        THEN 0 ELSE next_index]
  /\ w_pc' = [w_pc EXCEPT ![w] = IF next_index >= total_files
                                  THEN "done" ELSE "load"]
  /\ UNCHANGED <<inputvars, processed, worker_docs, m_pc, files, docvars,
                 outvars, othervars>>

\* A plausible slip: the two paths that drop the file leave processed alone.
LoadCountsKeptOnly(w) ==
  /\ w_pc[w] = "load"
  /\ worker_docs' =
       IF load_result[w_index[w]] = "ok"
       THEN [worker_docs EXCEPT ![w] = Append(@, w_index[w])]
       ELSE worker_docs
  /\ processed' = IF load_result[w_index[w]] = "ok" THEN processed + 1
                  ELSE processed
  /\ w_pc' = [w_pc EXCEPT ![w] = "fetch"]
  /\ w_index' = [w_index EXCEPT ![w] = 0]
  /\ UNCHANGED <<inputvars, next_index, m_pc, files, docvars,
                 outvars, othervars>>

\* The rest of the loop body: the file is read; a file that fails to load or
\* loads empty is dropped, any other is pushed onto the worker's own vector;
\* processed is incremented on each of the three paths.
Load(w) ==
  /\ w_pc[w] = "load"
  /\ worker_docs' =
       IF load_result[w_index[w]] = "ok"
       THEN [worker_docs EXCEPT ![w] = Append(@, w_index[w])]
       ELSE worker_docs
  /\ processed' = processed + 1
  /\ w_pc' = [w_pc EXCEPT ![w] = "fetch"]
  /\ w_index' = [w_index EXCEPT ![w] = 0]
  /\ UNCHANGED <<inputvars, next_index, m_pc, files, docvars,
                 outvars, othervars>>

\* A plausible slip: only a corpus without any document is turned down.
InsufficientCorpusEmptyOnly(fl) == Cardinality(DOMAIN fl) < 1

\* if (files.size() < 2)
InsufficientCorpus(fl) == Cardinality(DOMAIN fl) < 2

\* while (processed.load() < total_files) { ... sleep ... } is left.
WaitLoaded ==
  /\ m_pc = "wait"
  /\ processed >= total_files
  /\ m_pc' = "join"
  /\ UNCHANGED <<inputvars, loadvars, files, docvars, outvars, othervars>>

\* for (auto& worker : workers) worker.join();
JoinWorkers ==
  /\ m_pc = "join"
  /\ \A w \in Workers : w_pc[w] = "done"
  /\ m_pc' = "merge"
  /\ UNCHANGED <<inputvars, loadvars, files, docvars, outvars, othervars>>

\* The workers' vectors are merged and sorted by index; fewer than two
\* documents end the run with status 2.  The documents are moved out of the
\* workers' vectors, whose elements keep their index.
MergeDocs ==
  /\ m_pc = "merge"
  /\ files' = AsVector(SortDocs(ConcatDocs(worker_docs, 1)))
  /\ IF InsufficientCorpus(files')
     THEN m_pc' = "done" /\ status' = 2
     ELSE m_pc' = "meta" /\ status' = status
  /\ UNCHANGED <<inputvars, loadvars, docvars, sim, best_index, best_score,
                 dedup_sources, rows, pair_ids, othervars>>

\* version_infos and mod_times are filled from the paths of the documents.
ReadMetadata ==
  /\ m_pc = "meta"
  /\ version_infos' = [p \in DOMAIN files |-> name_info[files[p]]]
  /\ mod_times' = [p \in DOMAIN files |-> disk_time[files[p]]]
  /\ m_pc' = "score"
  /\ UNCHANGED <<inputvars, loadvars, files, outvars, othervars>>

\* The O(n^2) comparison; each pair of documents is scored once, with any
\* of the values of Scores.
ComputeMatches ==
  /\ m_pc = "score"
  /\ \E sm \in [FilePairs(files) -> Scores] :
       /\ sim' = sm
       /\ LET best == BestMatches(files, sm)
          IN best_index' = best.index /\ best_score' = best.score
  /\ m_pc' = "dedup"
  /\ UNCHANGED <<inputvars, loadvars, files, docvars, dedup_sources, rows,
                 pair_ids, status, othervars>>

CurrentTable == Table(files, version_infos, mod_times, best_index, best_score)

DedupSelect ==
  /\ m_pc = "dedup"
  /\ dedup_sources' = DedupSources(CurrentTable, dedup, dedup_threshold, under_dups)
  /\ m_pc' = "rows"
  /\ UNCHANGED <<inputvars, loadvars, files, docvars, sim, best_index,
                 best_score, rows, pair_ids, status, othervars>>

\* The rows are built and sorted; the run ends with status 0 (writing the
\* table and moving the files is left to the caller's side).
BuildRows ==
  /\ m_pc = "rows"
  /\ LET built == BuiltRows(CurrentTable)
     IN rows' = StableSortRows(built.rows) /\ pair_ids' = built.pair_ids
  /\ m_pc' = "done" /\ status' = 0
  /\ UNCHANGED <<inputvars, loadvars, files, docvars, sim, best_index,
                 best_score, dedup_sources, othervars>>

\* ------------------------------------------------- Spec: a whole run of main

ValidTime(v) == [valid |-> TRUE, value |-> v]

NoOutputs ==
  /\ files = <<>> /\ version_infos = <<>> /\ mod_times = <<>> /\ sim = <<>>
  /\ best_index = <<>> /\ best_score = <<>> /\ dedup_sources = <<>>
  /\ rows = <<>> /\ pair_ids = <<>> /\ status = NoResult

\* A run with --dedup over 1 .. MaxFiles files that carry no version marker
\* and one modification time; any file may fail to load or load empty.
Init ==
  /\ total_files \in 1..MaxFiles
  /\ load_result \in [0..(total_files - 1) -> {"fail", "empty", "ok"}]
  /\ name_info = [f \in 0..(total_files - 1) |-> NoVersionInfo]
  /\ disk_time = [f \in 0..(total_files - 1) |-> ValidTime(1)]
  /\ under_dups = {}
  /\ dedup = TRUE /\ dedup_threshold = One
  /\ worker_count \in 1..MaxWorkers
  /\ next_index = 0 /\ processed = 0
  /\ w_pc = [w \in 1..worker_count |-> "fetch"]
  /\ w_index = [w \in 1..worker_count |-> 0]
  /\ worker_docs = [w \in 1..worker_count |-> <<>>]
  /\ m_pc = "wait"
  /\ NoOutputs
  /\ CvIdle /\ ChIdle /\ TkIdle /\ ExtIdle

Next ==
  \/ \E w \in Workers : Fetch(w)
  \/ \E w \in Workers : Load(w)
  \/ WaitLoaded
  \/ JoinWorkers
  \/ MergeDocs
  \/ ReadMetadata
  \/ ComputeMatches
  \/ DedupSelect
  \/ BuildRows

Spec == Init /\ [][Next]_vars

\* The scheduler lets every loader thread and the main thread run: a step
\* of a thread that stays possible is taken.
Fairness ==
  /\ \A w \in 1..MaxWorkers :
       WF_vars(w \in Workers /\ (Fetch(w) \/ Load(w)))
  /\ WF_vars(WaitLoaded) /\ WF_vars(JoinWorkers)

FairSpec == Init /\ [][Next]_vars /\ Fairness

\* ------------------------------------ SpecResolve: main from the merged docs
\* Version marker and modification time of a file: no marker and the earlier
\* or the later time, or the marker v1 and the earlier time.
Profiles ==
  {[info |-> NoVersionInfo, time |-> ValidTime(1)],
   [info |-> NoVersionInfo, time |-> ValidTime(2)],
   [info |-> [NoVersionInfo EXCEPT !.has_version = TRUE, !.parts = <<1>>],
    time |-> ValidTime(1)]}

\* main after the merge of a run with one worker in which all of 2 .. MaxDocs
\* files loaded, with or without --dedup.
InitResolve ==
  /\ total_files \in 2..MaxDocs
  /\ load_result = [f \in 0..(total_files - 1) |-> "ok"]
  /\ \E pr \in [0..(total_files - 1) -> Profiles] :
       /\ name_info = [f \in 0..(total_files - 1) |-> pr[f].info]
       /\ disk_time = [f \in 0..(total_files - 1) |-> pr[f].time]
  /\ under_dups = {}
  /\ dedup \in BOOLEAN /\ dedup_threshold = One
  /\ worker_count = 1
  /\ next_index = total_files + 1 /\ processed = total_files
  /\ w_pc = <<"done">> /\ w_index = <<0>>
  /\ worker_docs = <<[k \in 1..total_files |-> k - 1]>>
  /\ m_pc = "meta"
  /\ files = [p \in 0..(total_files - 1) |-> p]
  /\ version_infos = <<>> /\ mod_times = <<>> /\ sim = <<>>
  /\ best_index = <<>> /\ best_score = <<>> /\ dedup_sources = <<>>
  /\ rows = <<>> /\ pair_ids = <<>> /\ status = NoResult
  /\ CvIdle /\ ChIdle /\ TkIdle /\ ExtIdle

NextResolve == ReadMetadata \/ ComputeMatches \/ DedupSelect \/ BuildRows

SpecResolve == InitResolve /\ [][NextResolve]_vars

\* --------------------------- SpecDedup: the dedup selection, any threshold
\* The thresholds given with --dedup: 0.5e-8, 1e-8 and the default 1.0.
Thresholds == {Epsilon, OutputPairThreshold, One}

\* main after the merge of a run with --dedup in which all of 2 .. MaxDocs
\* files loaded; the files carry no version marker and one of two
\* modification times; at most one of them lies under <root>/Duplicates (the
\* scan leaves that directory out only when it could stat it).
InitDedup ==
  /\ total_files \in 2..MaxDocs
  /\ load_result = [f \in 0..(total_files - 1) |-> "ok"]
  /\ name_info = [f \in 0..(total_files - 1) |-> NoVersionInfo]
  /\ disk_time \in [0..(total_files - 1) -> {ValidTime(1), ValidTime(2)}]
  /\ under_dups \in {{}} \cup {{f} : f \in 0..(total_files - 1)}
  /\ dedup = TRUE /\ dedup_threshold \in Thresholds
  /\ worker_count = 1
  /\ next_index = total_files + 1 /\ processed = total_files
  /\ w_pc = <<"done">> /\ w_index = <<0>>
  /\ worker_docs = <<[k \in 1..total_files |-> k - 1]>>
  /\ m_pc = "meta"
  /\ files = [p \in 0..(total_files - 1) |-> p]
  /\ version_infos = <<>> /\ mod_times = <<>> /\ sim = <<>>
  /\ best_index = <<>> /\ best_score = <<>> /\ dedup_sources = <<>>
  /\ rows = <<>> /\ pair_ids = <<>> /\ status = NoResult
  /\ CvIdle /\ ChIdle /\ TkIdle /\ ExtIdle

SpecDedup == InitDedup /\ [][NextResolve]_vars

\* ------------------------------------------------------------ claims on main
\* The scoring pass is over; the dedup selection is over; the rows are built.
Scored == m_pc \in {"dedup", "rows"} \/ (m_pc = "done" /\ status = 0)

Selected == m_pc = "rows" \/ (m_pc = "done" /\ status = 0)

RowsBuilt == m_pc = "done" /\ status = 0

Positions == DOMAIN files

\* The score of the documents at two positions.
PairScore(d, k) == ScoreOf(sim, files[d], files[k])

\* The reciprocal best-match pairs, as positions (i, j) with i < j.
ReciprocalPairs ==
  {p \in Positions \X Positions :
     /\ p[1] < p[2]
     /\ best_index[p[1]] = p[2]
     /\ best_index[p[2]] = p[1]}

\* The reciprocal pairs whose two best scores both meet the threshold.
PairsMeeting(threshold) ==
  {p \in ReciprocalPairs :
     /\ best_score[p[1]] + Epsilon >= threshold
     /\ best_score[p[2]] + Epsilon >= threshold}

\* The duplicate and the keeper of a pair.
DuplicateOf(p) == ChooseMoveIndex(p[1], p[2], version_infos, mod_times)

KeeperOf(p) == IF DuplicateOf(p) = p[1] THEN p[2] ELSE p[1]

\* The files scheduled for removal.
Moved == {dedup_sources[k] : k \in DOMAIN dedup_sources}

\* The files the iterations of the dedup loop for the two members of a pair
\* hand over for removal.
ScheduledFor(p) ==
  LET t == CurrentTable
  IN {t.files[c] :
        c \in {DedupCandidate(p[1], t, dedup_threshold, under_dups),
               DedupCandidate(p[2], t, dedup_threshold, under_dups)} \ {t.n}}

\* C1: for every reciprocal best-match pair whose two best scores meet the
\* dedup threshold, the file scheduled for removal on account of the pair is
\* the one ChooseMoveIndex returns, and the keeper is not scheduled on account
\* of the pair.
C1_ChooseResultScheduled ==
  (Selected /\ dedup) =>
    \A p \in PairsMeeting(dedup_threshold) :
      ScheduledFor(p) = {files[DuplicateOf(p)]}

\* C2: of every reciprocal best-match pair whose scores meet the dedup
\* threshold, at most one file is in dedup_sources.
C2_AtMostOneOfPairMoved ==
  (Selected /\ dedup) =>
    \A p \in PairsMeeting(dedup_threshold) :
      ~(files[p[1]] \in Moved /\ files[p[2]] \in Moved)

\* The rows whose left column is one of the given files.
RowsOf(fs) == {k \in DOMAIN rows : rows[k].file \in fs}

\* Exactly one row comes from the given files, and it reads left -> right.
OneRow(fs, left, right) ==
  /\ Cardinality(RowsOf(fs)) = 1
  /\ \A k \in RowsOf(fs) : rows[k].file = left /\ rows[k].match = right

\* The positions that are in some pair of the given set.
MembersOf(ps) == {d \in Positions : \E p \in ps : d \in {p[1], p[2]}}

\* C4 as stated: every reciprocal best-match pair produces exactly one row,
\* keeper left and duplicate right, and every document outside a reciprocal
\* pair exactly one row from the file to its best match.
C4_OneRowPerReciprocalPair ==
  RowsBuilt =>
    /\ \A p \in ReciprocalPairs :
         OneRow({files[p[1]], files[p[2]]},
                files[KeeperOf(p)], files[DuplicateOf(p)])
    /\ \A d \in Positions \ MembersOf(ReciprocalPairs) :
         OneRow({files[d]}, files[d], files[best_index[d]])

\* C4: every reciprocal best-match pair whose two best scores reach the
\* output pair threshold produces exactly one row, keeper left and duplicate
\* right; every other document produces exactly one row from the file to
\* its best match.
C4_OneRowPerOutputPair ==
  RowsBuilt =>
    /\ \A p \in PairsMeeting(OutputPairThreshold) :
         OneRow({files[p[1]], files[p[2]]},
                files[KeeperOf(p)], files[DuplicateOf(p)])
    /\ \A d \in Positions \ MembersOf(PairsMeeting(OutputPairThreshold)) :
         OneRow({files[d]}, files[d], files[best_index[d]])

\* The rows are built for three documents of which two are a reciprocal pair
\* above the output pair threshold, the earlier one at the higher position,
\* and the third is outside every reciprocal pair.
C4_Witness ==
  /\ RowsBuilt
  /\ Cardinality(Positions) = 3
  /\ <<0, 1>> \in PairsMeeting(OutputPairThreshold)
  /\ DuplicateOf(<<0, 1>>) = 1
  /\ mod_times[1].value < mod_times[0].value
  /\ best_index[2] = 0
  /\ Len(rows) = 2

\* C7: after the scoring pass, best_score[d] is the maximum of the scores of
\* d with the other documents, and best_index[d] is the smallest position
\* other than d that attains it.
C7_BestIsMaxAtSmallestIndex ==
  Scored =>
    \A d \in Positions :
      /\ best_index[d] \in Positions \ {d}
      /\ best_score[d] = PairScore(d, best_index[d])
      /\ \A k \in Positions \ {d} :
           /\ PairScore(d, k) <= best_score[d]
           /\ PairScore(d, k) = best_score[d] => best_index[d] <= k

\* The scoring pass is over and some document has its best score with two
\* others, before and after it.
C7_Witness ==
  /\ Scored
  /\ \E d \in Positions : \E k \in Positions \ {d} :
       /\ k > best_index[d]
       /\ best_index[d] < d /\ d < k
       /\ PairScore(d, k) = best_score[d]

\* --------------------------------------------------- claims on the whole run
\* The files that loaded, in ascending order.
RECURSIVE Ascending(_)
Ascending(S) ==
  IF S = {} THEN <<>>
  ELSE LET least == CHOOSE x \in S : \A y \in S : x <= y
       IN <<least>> \o Ascending(S \ {least})

LoadedFiles ==
  AsVector(Ascending({f \in DOMAIN load_result : load_result[f] = "ok"}))

\* What the files that loaded, their markers and times and the scores of
\* their pairs determine, whatever the workers did.
Reference ==
  LET fl == LoadedFiles
      vi == [p \in DOMAIN fl |-> name_info[fl[p]]]
      mt == [p \in DOMAIN fl |-> disk_time[fl[p]]]
      best == BestMatches(fl, sim)
      t == Table(fl, vi, mt, best.index, best.score)
  IN [files |-> fl, best_index |-> best.index, best_score |-> best.score,
      dedup_sources |-> DedupSources(t, dedup, dedup_threshold, under_dups),
      rows |-> StableSortRows(BuiltRows(t).rows)]

\* C5: the documents after the merge, the best-match table, the rows and the
\* files scheduled for removal are those determined by the files and their
\* load results, for every number of workers and every interleaving.
C5_Deterministic ==
  /\ m_pc \in {"meta", "score", "dedup", "rows", "done"} => files = LoadedFiles
  /\ RowsBuilt =>
       /\ best_index = Reference.best_index
       /\ best_score = Reference.best_score
       /\ dedup_sources = Reference.dedup_sources
       /\ rows = Reference.rows

\* A run of two workers is over in which the second worker loaded file 0 and
\* the first one file 1.
C5_Witness ==
  /\ RowsBuilt
  /\ worker_count = 2
  /\ worker_docs = << <<1>>, <<0, 2>> >>
  /\ Len(rows) > 0

\* C24: with --dedup every file scheduled for removal is the best partner
\* of a document whose best score s has s + 0.5e-8 >= threshold; no file is
\* scheduled twice and none lies under the Duplicates directory.
C24_ScheduledAreQualifiedPartners ==
  Selected /\ dedup =>
    /\ \A k \in DOMAIN dedup_sources :
         /\ \E i \in Positions :
              /\ best_index[i] \in Positions /\ best_index[i] # i
              /\ files[best_index[i]] = dedup_sources[k]
              /\ best_score[i] + Epsilon >= dedup_threshold
         /\ dedup_sources[k] \notin under_dups
    /\ \A k \in DOMAIN dedup_sources, l \in DOMAIN dedup_sources :
         k # l => dedup_sources[k] # dedup_sources[l]

\* File 2 lies under Duplicates and is the best partner of a document at
\* score 1: it is not scheduled, and one other file is.
C24_Witness ==
  /\ Selected /\ dedup /\ dedup_threshold = One
  /\ under_dups = {2} /\ Len(dedup_sources) = 1
  /\ \E i \in Positions : best_index[i] = 2 /\ best_score[i] = One

\* The position of a file among the documents, and the unordered pair of
\* positions a row refers to.  A row is made in the iteration of the document
\* in its left column, so rows are made in ascending position of r.file.
PosOf(f) == CHOOSE p \in Positions : files[p] = f
RowKey(r) ==
  LET a == PosOf(r.file)
      b == PosOf(r.match)
  IN IF b < a THEN <<b, a>> ELSE <<a, b>>

RowIds == {rows[k].pair_id : k \in DOMAIN rows}

\* The iteration in which an id was handed out first.
FirstReference(id) ==
  LET made == {PosOf(rows[k].file) : k \in {l \in DOMAIN rows : rows[l].pair_id = id}}
  IN CHOOSE p \in made : \A q \in made : p <= q

\* C25: the ids are 1 .. k without gaps, handed out in the order in which
\* the pairs are referenced first; two rows carry the same id exactly when
\* they refer to the same unordered pair.
C25_PairIdsInFirstReferenceOrder ==
  RowsBuilt =>
    /\ RowIds = 1..Cardinality(RowIds)
    /\ \A k \in DOMAIN rows, l \in DOMAIN rows :
         (RowKey(rows[k]) = RowKey(rows[l])) <=>
           (rows[k].pair_id = rows[l].pair_id)
    /\ \A a \in RowIds, b \in RowIds :
         a < b => FirstReference(a) < FirstReference(b)
    /\ DOMAIN pair_ids = {RowKey(rows[k]) : k \in DOMAIN rows}
    /\ \A k \in DOMAIN rows : pair_ids[RowKey(rows[k])] = rows[k].pair_id

\* Documents 0 and 1 are each other's best match at score 0 and document 2
\* matches document 0: the rows of 0 and 1 refer to the same pair and carry
\* id 1, the row of 2 carries id 2.
C25_Witness ==
  /\ RowsBuilt /\ Len(rows) = 3
  /\ \E k \in DOMAIN rows, l \in DOMAIN rows :
       /\ k # l /\ rows[k].pair_id = 1 /\ rows[l].pair_id = 1
       /\ rows[k].file = rows[l].match /\ rows[l].file = rows[k].match
  /\ \E k \in DOMAIN rows : rows[k].pair_id = 2

\* ------------------------------------------------- claims on the loader
\* The workers inside the loop body, and the indices a worker kept.
Loading == {w \in Workers : w_pc[w] = "load"}
KeptBy(w) == {worker_docs[w][k] : k \in DOMAIN worker_docs[w]}
Min(a, b) == IF a < b THEN a ELSE b

\* The indices below total_files handed out so far are 0 .. next_index - 1,
\* each either in the hands of one worker or counted in processed.
ClaimedOnce ==
  /\ \A v \in Loading, w \in Loading : v # w => w_index[v] # w_index[w]
  /\ \A w \in Loading : w_index[w] < Min(next_index, total_files)
  /\ processed + Cardinality(Loading) = Min(next_index, total_files)

\* A worker's vector holds files that loaded, none twice, none that another
\* worker holds or that is still being loaded.
OwnSlots ==
  /\ \A w \in Workers :
       /\ \A k \in DOMAIN worker_docs[w] :
            /\ load_result[worker_docs[w][k]] = "ok"
            /\ worker_docs[w][k] < Min(next_index, total_files)
            /\ \A l \in DOMAIN worker_docs[w] :
                 k # l => worker_docs[w][k] # worker_docs[w][l]
       /\ \A v \in Workers : v # w => KeptBy(v) \cap KeptBy(w) = {}
       /\ \A v \in Loading : w_index[v] \notin KeptBy(w)

\* files after the merge: the files that loaded, in strictly ascending order.
MergedAscending ==
  m_pc \in {"meta", "score", "dedup", "rows", "done"} =>
    /\ \E n \in 0..total_files : DOMAIN files = 0..(n - 1)
    /\ \A p \in DOMAIN files, q \in DOMAIN files : p < q => files[p] < files[q]
    /\ {files[p] : p \in DOMAIN files} =
         {f \in 0..(total_files - 1) : load_result[f] = "ok"}

\* A worker that enters the loop body holds the value the counter had, and
\* the counter went up by one; a vector changes only by its own worker
\* appending the index it holds.
ClaimStep ==
  \A w \in Workers :
    /\ w_pc[w] = "fetch" /\ w_pc'[w] = "load" =>
         w_index'[w] = next_index /\ next_index' = next_index + 1
    /\ worker_docs'[w] # worker_docs[w] =>
         /\ w_pc[w] = "load"
         /\ worker_docs' = [worker_docs EXCEPT ![w] = Append(@, w_index[w])]

\* C22: for every worker count and interleaving each index below total_files
\* is handed to exactly one worker, no two workers write the same vector,
\* and after join and merge files holds exactly the files that loaded
\* non-empty, each once, in strictly ascending index.
C22_EachIndexOnceThenAscending ==
  /\ [](m_pc # "idle" => ClaimedOnce /\ OwnSlots /\ MergedAscending)
  /\ [][m_pc # "idle" => ClaimStep]_vars

\* Two workers shared three files of which the middle one failed to load:
\* the first worker kept file 2, the second file 0, and the merge is done.
C22_Witness ==
  /\ m_pc = "meta" /\ worker_count = 2
  /\ load_result = (0 :> "ok" @@ 1 :> "fail" @@ 2 :> "ok")
  /\ worker_docs = << <<2>>, <<0>> >>
  /\ files = (0 :> 0 @@ 1 :> 2)

\* processed changes only by a worker leaving the loop body, and then by one.
CountedOnce ==
  processed' # processed =>
    /\ processed' = processed + 1
    /\ \E w \in Workers : w_pc[w] = "load" /\ w_pc'[w] = "fetch"

\* A worker leaves the loop body only with processed incremented, whatever
\* the file did.
EveryPathCounts ==
  \A w \in Workers :
    w_pc[w] = "load" /\ w_pc'[w] # "load" => processed' = processed + 1

\* The loading phase is over: the main thread is past the join.
Joined == m_pc \notin {"wait", "join"}

\* C23: under fair scheduling the loading phase ends: processed goes up by
\* one exactly when a worker finishes an index, on every path; it reaches
\* total_files, the wait loop exits, every worker leaves its loop, and all
\* workers are joined before anything else is done.
C23_LoadingTerminates ==
  /\ [][CountedOnce /\ EveryPathCounts]_vars
  /\ [](processed <= total_files)
  /\ <>(processed = total_files)
  /\ <>(m_pc = "join")
  /\ <>(\A w \in Workers : w_pc[w] = "done")
  /\ <>Joined
  /\ [](Joined => processed = total_files /\ \A w \in Workers : w_pc[w] = "done")

\* The wait is over after three files of which one failed to load, one was
\* empty and one was kept.
C23_Witness ==
  /\ m_pc = "merge" /\ processed = 3 /\ total_files = 3
  /\ load_result = (0 :> "fail" @@ 1 :> "empty" @@ 2 :> "ok")
  /\ \A w \in Workers : w_pc[w] = "done"

\* The document reached from d after k best-partner links.
RECURSIVE Follow(_, _)
Follow(d, k) == IF k = 0 THEN d ELSE best_index[Follow(d, k - 1)]

\* Every document has a partner other than itself, with the score of that
\* pair.
EveryDocumentMatched ==
  \A d \in Positions :
    /\ best_index[d] \in Positions \ {d}
    /\ best_score[d] # NoScore
    /\ best_score[d] = PairScore(d, best_index[d])

\* The links from d lead to a document whose partner links back to it.
ReachesReciprocalPair(d) ==
  \E k \in 0..Cardinality(Positions) :
    best_index[best_index[Follow(d, k)]] = Follow(d, k)

\* A walk that returns to its start returns after two links.
NoLongCycle ==
  \A d \in Positions, k \in 1..Cardinality(Positions) :
    Follow(d, k) = d => Follow(d, 2) = d

\* C29: after the scoring pass over n >= 2 documents every document has a
\* best partner different from itself, and following best-partner links from
\* any document reaches a reciprocal pair: the best-partner relation has no
\* cycle longer than 2.
C29_BestPartnerLinksEndInPairs ==
  Scored =>
    /\ EveryDocumentMatched
    /\ \A d \in Positions : ReachesReciprocalPair(d)
    /\ NoLongCycle

\* Three documents, every pair with the score 1: the first two are each
\* other's partner and the third links to the first.
C29_Witness ==
  /\ Scored /\ Cardinality(Positions) = 3
  /\ \A d \in Positions, k \in Positions : d # k => PairScore(d, k) = One
  /\ best_index[0] = 1 /\ best_index[1] = 0 /\ best_index[2] = 0
  /\ Follow(2, 1) = 0 /\ Follow(2, 3) = 0

\* ============================================== SimHash (Statistics.cpp)
\* A uint64_t is the sequence of its eight bytes, lowest first.
kFnvOffset == <<131, 3, 157, 115, 176, 15, 101, 20>>
kFnvPrime == <<179, 1, 0, 0, 0, 1, 0, 0>>
kSimHashSeedHigh == <<135, 202, 235, 133, 177, 121, 55, 158>>

ZeroWord == <<0, 0, 0, 0, 0, 0, 0, 0>>

\* a ^ b and a & b of two values below 2^n.
RECURSIVE XorBits(_, _, _)
XorBits(a, b, n) ==
  IF n = 0 THEN 0
  ELSE ((a + b) % 2) + 2 * XorBits(a \div 2, b \div 2, n - 1)

RECURSIVE AndBits(_, _, _)
AndBits(a, b, n) ==
  IF n = 0 THEN 0
  ELSE ((a % 2) * (b % 2)) + 2 * AndBits(a \div 2, b \div 2, n - 1)

Xor64(a, b) ==
  <<XorBits(a[1], b[1], 8), XorBits(a[2], b[2], 8), XorBits(a[3], b[3], 8),
    XorBits(a[4], b[4], 8), XorBits(a[5], b[5], 8), XorBits(a[6], b[6], 8),
    XorBits(a[7], b[7], 8), XorBits(a[8], b[8], 8)>>

And64(a, b) ==
  <<AndBits(a[1], b[1], 8), AndBits(a[2], b[2], 8), AndBits(a[3], b[3], 8),
    AndBits(a[4], b[4], 8), AndBits(a[5], b[5], 8), AndBits(a[6], b[6], 8),
    AndBits(a[7], b[7], 8), AndBits(a[8], b[8], 8)>>

\* value - 1 of a value other than 0: the borrow runs through the zero bytes.
RECURSIVE DecFrom(_, _)
DecFrom(value, k) ==
  IF k > 8 THEN value
  ELSE IF value[k] = 0 THEN DecFrom([value EXCEPT ![k] = 255], k + 1)
  ELSE [value EXCEPT ![k] = @ - 1]

Dec64(value) == DecFrom(value, 1)

\* a * b modulo 2^64, byte by byte with carry.
RECURSIVE Column(_, _, _, _)
Column(a, b, k, i) ==
  IF i > k THEN 0 ELSE a[i] * b[k + 1 - i] + Column(a, b, k, i + 1)

RECURSIVE MulFrom(_, _, _, _)
MulFrom(a, b, k, carry) ==
  IF k > 8 THEN <<>>
  ELSE LET t == Column(a, b, k, 1) + carry
       IN <<t % 256>> \o MulFrom(a, b, k + 1, t \div 256)

Mul64(a, b) == MulFrom(a, b, 1, 0)

\* static_cast<uint64_t>(ch)
ByteWord(ch) == <<ch, 0, 0, 0, 0, 0, 0, 0>>

\* The loop of Fnv1aHash64 from byte i of the text on.
RECURSIVE FnvLoop(_, _, _)
FnvLoop(hash, text, i) ==
  IF i > Len(text) THEN hash
  ELSE FnvLoop(Mul64(Xor64(hash, ByteWord(text[i])), kFnvPrime), text, i + 1)

\* uint64_t Fnv1aHash64(const std::string& text, uint64_t seed)
Fnv1aHash64(text, seed) == FnvLoop(Xor64(kFnvOffset, seed), text, 1)

\* value & (1ULL << bit)
HasBit(value, bit) == (value[(bit \div 8) + 1] \div (2 ^ (bit % 8))) % 2 = 1

\* A plausible slip: the loop counts the bits of the lowest byte only.
RECURSIVE Popcount64LowByte(_)
Popcount64LowByte(value) ==
  IF value[1] = 0 THEN 0
  ELSE 1 + Popcount64LowByte(And64(value, Dec64(value)))

\* int Popcount64(uint64_t value)
RECURSIVE Popcount64(_)
Popcount64(value) ==
  IF value = ZeroWord THEN 0
  ELSE 1 + Popcount64(And64(value, Dec64(value)))

\* A Statistics object: _counts with the order in which the unordered_map
\* iterates over it, and _totWords.
StatObject(c, o, n) == [counts |-> c, order |-> o, totWords |-> n]

\* std::array<int64_t, 128> weights{}
ZeroWeights == [bit \in 1..128 |-> 0]

\* weights[bit] after one term: up by the count where the hash has the bit
\* and down where it has not.
WeighBit(weights, base, hash, weight, bit) ==
  IF HasBit(hash, bit) THEN weights[base + bit + 1] + weight
  ELSE weights[base + bit + 1] - weight

\* The eight weights of the k-th byte of the hash.
WeighByte(weights, base, hash, weight, k) ==
  <<WeighBit(weights, base, hash, weight, 8 * k),
    WeighBit(weights, base, hash, weight, 8 * k + 1),
    WeighBit(weights, base, hash, weight, 8 * k + 2),
    WeighBit(weights, base, hash, weight, 8 * k + 3),
    WeighBit(weights, base, hash, weight, 8 * k + 4),
    WeighBit(weights, base, hash, weight, 8 * k + 5),
    WeighBit(weights, base, hash, weight, 8 * k + 6),
    WeighBit(weights, base, hash, weight, 8 * k + 7)>>

\* One inner loop: the 64 weights from base on, for every bit of the hash.
WeighWord(weights, base, hash, weight) ==
  WeighByte(weights, base, hash, weight, 0)
    \o WeighByte(weights, base, hash, weight, 1)
    \o WeighByte(weights, base, hash, weight, 2)
    \o WeighByte(weights, base, hash, weight, 3)
    \o WeighByte(weights, base, hash, weight, 4)
    \o WeighByte(weights, base, hash, weight, 5)
    \o WeighByte(weights, base, hash, weight, 6)
    \o WeighByte(weights, base, hash, weight, 7)

\* The two inner loops for one term: hash_low weighs weights[bit] and
\* hash_high weighs weights[bit + 64].
Weigh(weights, hash_low, hash_high, weight) ==
  WeighWord(weights, 0, hash_low, weight)
    \o WeighWord(weights, 64, hash_high, weight)

\* The loop over _counts from the i-th term on.
RECURSIVE WeightFrom(_, _, _)
WeightFrom(stat, i, weights) ==
  IF i > Len(stat.order) THEN weights
  ELSE LET term == stat.order[i]
           hash_low == Fnv1aHash64(term, ZeroWord)
           hash_high == Fnv1aHash64(term, kSimHashSeedHigh)
       IN WeightFrom(stat, i + 1,
            Weigh(weights, hash_low, hash_high, stat.counts[term]))

\* The byte of out.low or out.high made of the bits from base on whose
\* weight is not negative.
RECURSIVE SignByte(_, _, _)
SignByte(weights, base, b) ==
  IF b > 7 THEN 0
  ELSE (IF weights[base + b + 1] >= 0 THEN 2 ^ b ELSE 0)
       + SignByte(weights, base, b + 1)

\* A plausible slip: a bit is set only where the weight is positive.
RECURSIVE SignByteStrict(_, _, _)
SignByteStrict(weights, base, b) ==
  IF b > 7 THEN 0
  ELSE (IF weights[base + b + 1] > 0 THEN 2 ^ b ELSE 0)
       + SignByteStrict(weights, base, b + 1)

SignWordStrict(weights, base) ==
  <<SignByteStrict(weights, base, 0), SignByteStrict(weights, base + 8, 0),
    SignByteStrict(weights, base + 16, 0), SignByteStrict(weights, base + 24, 0),
    SignByteStrict(weights, base + 32, 0), SignByteStrict(weights, base + 40, 0),
    SignByteStrict(weights, base + 48, 0), SignByteStrict(weights, base + 56, 0)>>

SignWord(weights, base) ==
  <<SignByte(weights, base, 0), SignByte(weights, base + 8, 0),
    SignByte(weights, base + 16, 0), SignByte(weights, base + 24, 0),
    SignByte(weights, base + 32, 0), SignByte(weights, base + 40, 0),
    SignByte(weights, base + 48, 0), SignByte(weights, base + 56, 0)>>

\* SimHash128 Statistics::SimHash128Signature() const
SimHash128Signature(stat) ==
  LET weights == WeightFrom(stat, 1, ZeroWeights)
  IN [high |-> SignWord(weights, 64), low |-> SignWord(weights, 0)]

\* A plausible slip: the high halves are left out of the distance.
SimHashDistanceLowOnly(left, right) ==
  Popcount64(Xor64(left.low, right.low)) * (One \div 128)

\* double SimHashDistance(left, right): distance / 128.0 is exact in a
\* double, and exact in the score unit, of which 1/128 is a multiple.
SimHashDistance(left, right) ==
  LET diff_low == Xor64(left.low, right.low)
      diff_high == Xor64(left.high, right.high)
      distance == Popcount64(diff_low) + Popcount64(diff_high)
  IN distance * (One \div 128)

\* double SimHashSimilarity(left, right)
SimHashSimilarity(left, right) == One - SimHashDistance(left, right)

\* ================================== double arithmetic (Statistics.cpp)
\* A double is modelled as a binary floating-point number with a significand
\* of MantissaBits bits, rounded to nearest, ties to even, after every
\* operation, as IEEE 754 prescribes: [m, e] is the value m * 2^e with
\* 2^(MantissaBits - 1) <= m < 2^MantissaBits, and 0 is [0, 0].  None of the
\* values of the similarity functions is negative, infinite or subnormal.
MantissaBits == 8

Double(m, e) == [m |-> m, e |-> e]

Zero == Double(0, 0)

\* How many low bits n has beyond MantissaBits.
RECURSIVE ShiftOf(_)
ShiftOf(n) == IF n < 2 ^ MantissaBits THEN 0 ELSE 1 + ShiftOf(n \div 2)

\* The double nearest to n * 2^e.
RECURSIVE Norm(_, _)
Norm(n, e) ==
  IF n = 0 THEN Zero
  ELSE IF n < 2 ^ (MantissaBits - 1) THEN Norm(2 * n, e - 1)
  ELSE IF n < 2 ^ MantissaBits THEN Double(n, e)
  ELSE LET s == ShiftOf(n)
           q == n \div (2 ^ s)
           r == n % (2 ^ s)
           half == 2 ^ (s - 1)
           up == r > half \/ (r = half /\ q % 2 = 1)
           q1 == IF up THEN q + 1 ELSE q
       IN IF q1 = 2 ^ MantissaBits
          THEN Double(2 ^ (MantissaBits - 1), e + s + 1)
          ELSE Double(q1, e + s)

\* The double nearest to (n / d) * 2^e: the quotient is taken to two bits
\* more than the significand, with one more bit for a remainder.
RECURSIVE Rat(_, _, _)
Rat(n, d, e) ==
  IF n = 0 THEN Zero
  ELSE IF n < d * (2 ^ (MantissaBits + 1)) THEN Rat(2 * n, d, e - 1)
  ELSE Norm(2 * (n \div d) + (IF n % d = 0 THEN 0 ELSE 1), e - 1)

\* static_cast<double>(k) and the literal 1.0
FromInt(k) == Norm(k, 0)

OneF == FromInt(1)

\* x * y, x / y, x + y and |x - y|
Mul(x, y) == Norm(x.m * y.m, x.e + y.e)

Div(x, y) == Rat(x.m, y.m, x.e - y.e)

Add(x, y) ==
  IF x.m = 0 THEN y
  ELSE IF y.m = 0 THEN x
  ELSE LET hi == IF x.e >= y.e THEN x ELSE y
           lo == IF x.e >= y.e THEN y ELSE x
           d == hi.e - lo.e
       IN IF d > MantissaBits + 1 THEN hi
          ELSE Norm(hi.m * (2 ^ d) + lo.m, lo.e)

\* x < y
Less(x, y) ==
  IF y.m = 0 THEN FALSE
  ELSE IF x.m = 0 THEN TRUE
  ELSE x.e < y.e \/ (x.e = y.e /\ x.m < y.m)

AbsDiff(x, y) ==
  IF x = y THEN Zero
  ELSE LET hi == IF Less(x, y) THEN y ELSE x
           lo == IF Less(x, y) THEN x ELSE y
           d == hi.e - lo.e
       IN IF lo.m = 0 \/ d > MantissaBits + 1 THEN hi
          ELSE Norm(hi.m * (2 ^ d) - lo.m, lo.e)

\* The integer square root, bit by bit.
RECURSIVE IsqrtFrom(_, _, _)
IsqrtFrom(X, r, bit) ==
  IF bit < 0 THEN r
  ELSE LET c == r + 2 ^ bit
       IN IsqrtFrom(X, IF c * c <= X THEN c ELSE r, bit - 1)

\* m * 4^k, with e lowered by 2k, wide enough for a rounded root.
RECURSIVE Widen(_, _)
Widen(m, e) ==
  IF m >= 2 ^ (2 * MantissaBits + 2) THEN Double(m, e)
  ELSE Widen(4 * m, e - 2)

\* A plausible slip: the norms are multiplied without their square roots.
SqrtOmitted(x) == x

\* std::sqrt(x), correctly rounded
Sqrt(x) ==
  IF x.m = 0 THEN Zero
  ELSE LET odd == x.e % 2 = 1
           w == Widen(IF odd THEN 2 * x.m ELSE x.m,
                      IF odd THEN x.e - 1 ELSE x.e)
           r == IsqrtFrom(w.m, 0, MantissaBits + 2)
       IN Norm(2 * r + (IF r * r = w.m THEN 0 ELSE 1), (w.e \div 2) - 1)

\* std::log is computed in fixed point with LogBits fractional bits:
\* ln x = k ln 2 + 2 atanh((y - 1) / (y + 1)) for x = y * 2^k, 1 <= y < 2,
\* with the series of atanh up to the eleventh power.
LogBits == MantissaBits + 7

\* ln 2 in units of 2^-20.
Ln2Scaled == 726817

Ln2 == (Ln2Scaled + 2 ^ (19 - LogBits)) \div (2 ^ (20 - LogBits))

RECURSIVE LogSeries(_, _, _, _)
LogSeries(term, z2, n, acc) ==
  IF n > 11 THEN acc
  ELSE LogSeries((term * z2) \div (2 ^ LogBits), z2, n + 2,
                 acc + (term \div n))

\* std::log(x) for x >= 1
Log(x) ==
  LET k == x.e + MantissaBits - 1
      base == 2 ^ (MantissaBits - 1)
      z == ((x.m - base) * (2 ^ LogBits)) \div (x.m + base)
      z2 == (z * z) \div (2 ^ LogBits)
  IN Norm(k * Ln2 + 2 * LogSeries(z, z2, 1, 0), 0 - LogBits)

\* ================================== TfIdfCosineSimilarity and Dist
\* The count of a term in an object, 0 when the object lacks it.
CountIn(stat, term) ==
  IF term \in DOMAIN stat.counts THEN stat.counts[term] ELSE 0

\* A plausible slip: the weight is taken from the document's own count.
CombinedOwn(count, other_count) == FromInt(count)

\* static_cast<double>(wordInfo.second + right_count)
Combined(count, other_count) == FromInt(count + other_count)

\* std::log((total_terms + 1.0) / (combined + 1.0)) + 1.0
Idf(total_terms, combined) ==
  Add(Log(Div(Add(total_terms, OneF), Add(combined, OneF))), OneF)

\* The first loop from the i-th term of left on; acc holds dot and norm_left.
RECURSIVE LeftLoop(_, _, _, _, _)
LeftLoop(left, right, total_terms, i, acc) ==
  IF i > Len(left.order) THEN acc
  ELSE
    LET term == left.order[i]
        count == left.counts[term]
        right_count == CountIn(right, term)
        idf == Idf(total_terms, Combined(count, right_count))
        left_tf == Div(FromInt(count), FromInt(left.totWords))
        left_weight == Mul(left_tf, idf)
        right_tf == Div(FromInt(right_count), FromInt(right.totWords))
        right_weight == Mul(right_tf, idf)
    IN LeftLoop(left, right, total_terms, i + 1,
         [norm_left |-> Add(acc.norm_left, Mul(left_weight, left_weight)),
          dot |-> IF right_count > 0
                  THEN Add(acc.dot, Mul(left_weight, right_weight))
                  ELSE acc.dot])

\* The second loop from the i-th term of right on; norm_right.
RECURSIVE RightLoop(_, _, _, _, _)
RightLoop(left, right, total_terms, i, norm_right) ==
  IF i > Len(right.order) THEN norm_right
  ELSE
    LET term == right.order[i]
        count == right.counts[term]
        left_count == CountIn(left, term)
        idf == Idf(total_terms, Combined(count, left_count))
        right_tf == Div(FromInt(count), FromInt(right.totWords))
        right_weight == Mul(right_tf, idf)
    IN RightLoop(left, right, total_terms, i + 1,
                 Add(norm_right, Mul(right_weight, right_weight)))

\* TfIdfCosineSimilarity of two objects that are not empty, up to the
\* division dot / denom.
CosineOf(left, right) ==
  LET total_terms == FromInt(left.totWords + right.totWords)
      first == LeftLoop(left, right, total_terms, 1,
                        [norm_left |-> Zero, dot |-> Zero])
      norm_right == RightLoop(left, right, total_terms, 1, Zero)
      denom == Mul(Sqrt(first.norm_left), Sqrt(norm_right))
  IN IF first.norm_left.m = 0 \/ norm_right.m = 0 THEN Zero
     ELSE IF denom.m = 0 THEN Zero
     ELSE Div(first.dot, denom)

\* A plausible slip: the quotient is returned as it is.
TfIdfCosineSimilarityUnclamped(left, right) ==
  IF left.totWords = 0 \/ right.totWords = 0 THEN Zero
  ELSE CosineOf(left, right)

\* double Statistics::TfIdfCosineSimilarity(left, right)
TfIdfCosineSimilarity(left, right) ==
  IF left.totWords = 0 \/ right.totWords = 0 THEN Zero
  ELSE LET score == CosineOf(left, right)
       IN IF Less(OneF, score) THEN OneF ELSE score

\* The two loops of Dist from the i-th term on.
RECURSIVE DistOwn(_, _, _, _)
DistOwn(this, fellow, i, sum) ==
  IF i > Len(this.order) THEN sum
  ELSE
    LET term == this.order[i]
        freq == Div(FromInt(this.counts[term]), FromInt(this.totWords))
        fellowFreq == IF term \in DOMAIN fellow.counts
                      THEN Div(FromInt(fellow.counts[term]),
                               FromInt(fellow.totWords))
                      ELSE Zero
        d == AbsDiff(freq, fellowFreq)
    IN DistOwn(this, fellow, i + 1, Add(sum, Mul(d, d)))

RECURSIVE DistFellow(_, _, _, _)
DistFellow(this, fellow, i, sum) ==
  IF i > Len(fellow.order) THEN sum
  ELSE
    LET term == fellow.order[i]
        fellowFreq == Div(FromInt(fellow.counts[term]),
                          FromInt(fellow.totWords))
    IN DistFellow(this, fellow, i + 1,
                  IF term \in DOMAIN this.counts THEN sum
                  ELSE Add(sum, Mul(fellowFreq, fellowFreq)))

\* double Statistics::Dist(const Statistics& fellow) const
Dist(this, fellow) ==
  Sqrt(DistFellow(this, fellow, 1, DistOwn(this, fellow, 1, Zero)))

\* ================================== the similarity of two documents
\* The terms of the documents compared: "b", "bb" and "e" with an acute.
Vocabulary == {<<98>>, <<98, 98>>, <<195, 169>>}

MaxCount == 2      \* largest count of one term in a document

\* Every order in which the terms of T can be iterated over.
RECURSIVE Orders(_)
Orders(T) ==
  IF T = {} THEN {<<>>}
  ELSE UNION {{<<t>> \o rest : rest \in Orders(T \ {t})} : t \in T}

RECURSIVE TotalOf(_, _)
TotalOf(c, T) ==
  IF T = {} THEN 0
  ELSE LET t == CHOOSE x \in T : TRUE IN c[t] + TotalOf(c, T \ {t})

\* The Statistics objects a text over Vocabulary can leave: positive counts,
\* their sum, and any iteration order of the unordered_map.
Documents ==
  UNION {UNION {{StatObject(c, o, TotalOf(c, T)) : o \in Orders(T)} :
                  c \in [T -> 1..MaxCount]} :
           T \in SUBSET Vocabulary}

MaxSignedWords == 2    \* most words of a document that is signed

\* The documents compared by their signatures.
SignedDocuments == {d \in Documents : d.totWords <= MaxSignedWords}

InitSimilarity ==
  /\ CvIdle /\ ChIdle /\ DocIdle /\ TkIdle /\ MainIdle
  /\ locale = "C" /\ StIdle /\ DcIdle /\ FdIdle /\ IoIdle
  /\ sm_use_hash \in BOOLEAN
  /\ IF sm_use_hash
     THEN sm_left \in SignedDocuments /\ sm_right \in SignedDocuments
     ELSE sm_left \in Documents /\ sm_right \in Documents
  /\ sm_tfidf = NoResult
  /\ sm_hash_left = NoResult /\ sm_hash_right = NoResult
  /\ sm_distance = NoResult /\ sm_similarity = NoResult
  /\ sm_pc = "start"

simrest == <<cvvars, chvars, docvars, tkvars, mainvars, locale, stvars,
             dcvars, fdvars, iovars>>

\* use_hash is false: score = Statistics::TfIdfCosineSimilarity(stats[i],
\* stats[j])
TfIdfStep ==
  /\ sm_pc = "start" /\ ~sm_use_hash
  /\ sm_tfidf' = TfIdfCosineSimilarity(sm_left, sm_right)
  /\ sm_pc' = "tfidf"
  /\ UNCHANGED <<sm_left, sm_right, sm_hash_left, sm_hash_right,
                 sm_distance, sm_similarity, sm_use_hash, simrest>>

\* use_hash is true: doc.hash = doc.stats.SimHash128Signature() for both
\* documents
SignatureStep ==
  /\ sm_pc = "start" /\ sm_use_hash
  /\ sm_hash_left' = SimHash128Signature(sm_left)
  /\ sm_hash_right' = SimHash128Signature(sm_right)
  /\ sm_pc' = "signed"
  /\ UNCHANGED <<sm_left, sm_right, sm_tfidf, sm_distance, sm_similarity,
                 sm_use_hash, simrest>>

\* score = Statistics::SimHashSimilarity(hashes[i], hashes[j])
SimHashStep ==
  /\ sm_pc = "signed"
  /\ sm_distance' = SimHashDistance(sm_hash_left, sm_hash_right)
  /\ sm_similarity' = SimHashSimilarity(sm_hash_left, sm_hash_right)
  /\ sm_pc' = "done"
  /\ UNCHANGED <<sm_left, sm_right, sm_tfidf, sm_hash_left, sm_hash_right,
                 sm_use_hash, simrest>>

NextSimilarity == TfIdfStep \/ SignatureStep \/ SimHashStep

SpecSimilarity == InitSimilarity /\ [][NextSimilarity]_vars

\* ---------------------------------- claims about the similarity functions
\* The rounding error allowed between two results: 2^(3 - MantissaBits),
\* eight units in the last place of a result in [1/2, 1).
Tolerance == Norm(1, 3 - MantissaBits)

Within(x, y, tol) == ~Less(tol, AbsDiff(x, y))

TfIdfDone == sm_pc = "tfidf"

SimHashDone == sm_pc = "done"

\* C11 as stated: both similarity metrics are symmetric, TfIdfCosineSimilarity
\* (A, B) equals TfIdfCosineSimilarity(B, A) and SimHashSimilarity(sigA, sigB)
\* equals SimHashSimilarity(sigB, sigA), for all documents and signatures.
C11_Symmetric ==
  /\ TfIdfDone => sm_tfidf = TfIdfCosineSimilarity(sm_right, sm_left)
  /\ SimHashDone =>
       sm_similarity = SimHashSimilarity(sm_hash_right, sm_hash_left)

\* C11 amended: SimHashSimilarity and SimHashDistance are exactly symmetric;
\* TfIdfCosineSimilarity(A, B) and TfIdfCosineSimilarity(B, A) agree up to
\* the rounding error of the double arithmetic, because the dot product is
\* summed in the iteration order of the left document.
C11_SymmetricUpToRounding ==
  /\ TfIdfDone =>
       Within(sm_tfidf, TfIdfCosineSimilarity(sm_right, sm_left), Tolerance)
  /\ SimHashDone =>
       /\ sm_similarity = SimHashSimilarity(sm_hash_right, sm_hash_left)
       /\ sm_distance = SimHashDistance(sm_hash_right, sm_hash_left)

\* Two documents whose two scores differ in the last place.
C11_Witness ==
  /\ TfIdfDone
  /\ sm_left.totWords > 0 /\ sm_right.totWords > 0
  /\ sm_left.counts # sm_right.counts
  /\ sm_tfidf # TfIdfCosineSimilarity(sm_right, sm_left)

SameCounts == sm_left.totWords > 0 /\ sm_left.counts = sm_right.counts

\* C12 as stated: a non-empty document compared with a document that has
\* the same term counts gets TF-IDF cosine similarity 1.0 and SimHash
\* distance 0 (similarity 1.0).
C12_SameCountsMaximum ==
  /\ TfIdfDone /\ SameCounts => sm_tfidf = OneF
  /\ SimHashDone /\ SameCounts => sm_distance = 0 /\ sm_similarity = One

\* C12 amended: for a non-empty document and one with the same term counts
\* the SimHash distance is exactly 0 and the similarity exactly 1.0; the
\* TF-IDF cosine similarity is 1.0 up to the rounding error of the double
\* arithmetic, and never above 1.0.
C12_SameCountsMaximumUpToRounding ==
  /\ TfIdfDone /\ SameCounts =>
       Within(sm_tfidf, OneF, Tolerance) /\ ~Less(OneF, sm_tfidf)
  /\ SimHashDone /\ SameCounts => sm_distance = 0 /\ sm_similarity = One

\* A document of several terms compared with one of the same counts whose
\* score stays below 1.0.
C12_Witness ==
  /\ TfIdfDone /\ SameCounts
  /\ Len(sm_left.order) > 1
  /\ Less(sm_tfidf, OneF)

\* The number of the bits set in a word, bit by bit.
BitsSet(value) == Cardinality({bit \in 0..63 : HasBit(value, bit)})

\* C13: SimHashDistance is popcount(sigA xor sigB) / 128 over both halves of
\* the signatures, one of the values k/128 with 0 <= k <= 128, and
\* SimHashSimilarity is 1 minus that distance.
C13_DistanceIsPopcountOver128 ==
  SimHashDone =>
    LET k == BitsSet(Xor64(sm_hash_left.low, sm_hash_right.low))
               + BitsSet(Xor64(sm_hash_left.high, sm_hash_right.high))
    IN /\ k \in 0..128
       /\ One % 128 = 0
       /\ sm_distance = k * (One \div 128)
       /\ sm_similarity = One - sm_distance

\* Two signatures that differ in their high halves.
C13_Witness ==
  /\ SimHashDone
  /\ sm_hash_left.high # sm_hash_right.high
  /\ sm_hash_left.low # sm_hash_right.low
  /\ sm_distance > 0

\* The two hashes of every term of the vocabulary.
TermHashes ==
  {[term |-> t, low |-> Fnv1aHash64(t, ZeroWord),
    high |-> Fnv1aHash64(t, kSimHashSeedHigh)] : t \in Vocabulary}

HashesOf(t) == CHOOSE h \in TermHashes : h.term = t

\* Bit b of a 128-bit value given by its halves: bits 0..63 are those of
\* low, bits 64..127 those of high.
Bit128(low, high, b) ==
  IF b < 64 THEN HasBit(low, b) ELSE HasBit(high, b - 64)

\* The sum over the terms in T of +count where bit b of the term's hash is 1
\* and -count where it is 0.
RECURSIVE SignedSum(_, _, _)
SignedSum(stat, T, b) ==
  IF T = {} THEN 0
  ELSE LET t == CHOOSE x \in T : TRUE
           h == HashesOf(t)
       IN (IF Bit128(h.low, h.high, b) THEN stat.counts[t]
           ELSE 0 - stat.counts[t])
          + SignedSum(stat, T \ {t}, b)

AllOnes == <<255, 255, 255, 255, 255, 255, 255, 255>>

SignatureOf(stat, sig) ==
  /\ \A b \in 0..127 :
       Bit128(sig.low, sig.high, b) <=>
         SignedSum(stat, DOMAIN stat.counts, b) >= 0
  /\ stat.totWords = 0 => sig.low = AllOnes /\ sig.high = AllOnes

\* The runs with --hash: both documents are signed, then compared.
InitSignature == InitSimilarity /\ sm_use_hash

NextSignature == SignatureStep \/ SimHashStep

SpecSignature == InitSignature /\ [][NextSignature]_vars

Signed == sm_pc \in {"signed", "done"} /\ sm_use_hash

\* C27: bit b of the signature is 1 exactly when the sum over the distinct
\* terms of +count (bit b of the term's hash is 1) or -count (it is 0) is
\* >= 0, with the seed-0 hash for bits 0..63 and the seeded hash for bits
\* 64..127; the sum is over the set of terms, so that the order in which
\* the terms were visited (any of them, in the states checked) does not
\* matter; an empty document has the all-ones signature.
C27_SignatureIsSignOfWeightedBits ==
  Signed =>
    /\ SignatureOf(sm_left, sm_hash_left)
    /\ SignatureOf(sm_right, sm_hash_right)

\* The left document is empty and the right one holds two terms once each:
\* where their hashes differ the sum is 0 and the bit is set.
C27_Witness ==
  /\ Signed /\ sm_left.totWords = 0
  /\ Cardinality(DOMAIN sm_right.counts) = 2 /\ sm_right.totWords = 2
  /\ sm_hash_right # sm_hash_left
  /\ \E b \in 0..127 :
       /\ SignedSum(sm_right, DOMAIN sm_right.counts, b) = 0
       /\ Bit128(sm_hash_right.low, sm_hash_right.high, b)

\* C19: TfIdfCosineSimilarity returns exactly 0 whenever either document is
\* empty, and its result always lies in [0, 1].
C19_ZeroOnEmptyAndInUnitInterval ==
  TfIdfDone =>
    /\ sm_left.totWords = 0 \/ sm_right.totWords = 0 => sm_tfidf = Zero
    /\ sm_tfidf.m >= 0
    /\ ~Less(OneF, sm_tfidf)

\* Two documents whose quotient dot / denom overshoots 1.0 and is clamped.
C19_Witness ==
  /\ TfIdfDone
  /\ sm_left.totWords > 0 /\ sm_right.totWords > 0
  /\ Less(OneF, CosineOf(sm_left, sm_right))
  /\ sm_tfidf = OneF

\* ================================== SpecStatistics: calls on one object
\* One Statistics object and one StatisticsTokenizer bound to it take any
\* sequence of calls: AddToken, AddText, Clear on the object, AddChunk and
\* Finish on the tokenizer.
MaxCalls == 3      \* calls made in one behaviour

\* The strings handed to AddToken: none, the stop word "a", "b", "B", "bb".
GivenTokens == {<<>>, <<97>>, <<98>>, <<66>>, <<98, 98>>}

\* The texts handed to AddText and AddChunk: "b", " ", "a b", "B bb", "bb",
\* "b a", and a text that ends in the lead byte of a two-byte sequence.
GivenTexts ==
  {<<98>>, <<32>>, <<97, 32, 98>>, <<66, 32, 98, 98>>, <<98, 98>>,
   <<98, 32, 97>>, <<98, 195>>}

\* void Statistics::AddText(const std::string& text): a tokenizer of its own
AddText(c, n, text) == Finish(AddChunk(TokState(<<>>, <<>>, c, n), text))

\* bool IsEmpty() const
IsEmpty(n) == n = 0

InitStatistics ==
  CvIdle /\ ChIdle /\ DocIdle /\ TkIdle /\ MainIdle /\ ExtIdle

strest == <<tk_input, tk_fed, tk_pc, tk_split, cvvars, chvars, docvars,
            mainvars, locale, dcvars, fdvars, simvars, iovars>>

\* stats.AddToken(t) with a string of the caller
StAddToken ==
  /\ st_calls < MaxCalls
  /\ \E t \in GivenTokens :
       LET r == AddToken(TokState(<<>>, t, counts, totWords))
       IN /\ counts' = r.counts /\ totWords' = r.totWords
          /\ st_given' = t /\ st_after' = r.token
  /\ st_op' = "AddToken" /\ st_calls' = st_calls + 1
  /\ UNCHANGED <<pending, token, strest>>

\* stats.AddText(text)
StAddText ==
  /\ st_calls < MaxCalls
  /\ \E text \in GivenTexts :
       LET r == AddText(counts, totWords, text)
       IN /\ counts' = r.counts /\ totWords' = r.totWords
          /\ st_given' = text
  /\ st_op' = "AddText" /\ st_calls' = st_calls + 1
  /\ UNCHANGED <<pending, token, st_after, strest>>

\* tokenizer.AddChunk(data, len)
StAddChunk ==
  /\ st_calls < MaxCalls
  /\ \E data \in GivenTexts :
       /\ SetTok(AddChunk(CurrentTok, data))
       /\ st_given' = data
  /\ st_op' = "AddChunk" /\ st_calls' = st_calls + 1
  /\ UNCHANGED <<st_after, strest>>

\* tokenizer.Finish()
StFinish ==
  /\ st_calls < MaxCalls
  /\ SetTok(Finish(CurrentTok))
  /\ st_op' = "Finish" /\ st_calls' = st_calls + 1
  /\ UNCHANGED <<st_given, st_after, strest>>

\* stats.Clear()
StClear ==
  /\ st_calls < MaxCalls
  /\ counts' = EmptyCounts /\ totWords' = 0
  /\ st_op' = "Clear" /\ st_calls' = st_calls + 1
  /\ UNCHANGED <<pending, token, st_given, st_after, strest>>

NextStatistics == StAddToken \/ StAddText \/ StAddChunk \/ StFinish \/ StClear

SpecStatistics == InitStatistics /\ [][NextStatistics]_vars

\* The sum of the counts of the terms in T.
RECURSIVE SumOfCounts(_, _)
SumOfCounts(c, T) ==
  IF T = {} THEN 0
  ELSE LET t == CHOOSE x \in T : TRUE IN c[t] + SumOfCounts(c, T \ {t})

\* C14: after any sequence of AddToken, AddText, tokenizer AddChunk/Finish
\* and Clear calls the total equals the sum of the counts, every stored
\* count is positive, no stored term is empty or a stop word, and IsEmpty()
\* holds exactly when the total is 0 (and then no term is stored).
C14_StatisticsInvariant ==
  /\ totWords = SumOfCounts(counts, DOMAIN counts)
  /\ \A t \in DOMAIN counts : counts[t] \in Nat /\ counts[t] > 0
  /\ \A t \in DOMAIN counts : t # <<>> /\ ~IsStopWord(t)
  /\ IsEmpty(totWords) <=> totWords = 0
  /\ IsEmpty(totWords) <=> DOMAIN counts = {}

\* Three calls have left two terms, one of them counted more than once.
C14_Witness ==
  /\ st_calls = MaxCalls
  /\ Cardinality(DOMAIN counts) >= 2
  /\ \E t \in DOMAIN counts : counts[t] >= 2

\* The count of a term, 0 when it is not stored.
CountOf(c, t) == IF t \in DOMAIN c THEN c[t] ELSE 0

\* C20: AddToken(t) leaves the statistics unchanged when t is empty or a stop
\* word; otherwise the count of t goes up by 1 (from 0 if absent), the total
\* goes up by 1 and no other count changes; if t was not empty it is empty
\* on return.
C20_AddTokenFrame ==
  [][st_op' = "AddToken" =>
       LET t == st_given'
       IN /\ (t = <<>> \/ IsStopWord(t)) =>
               counts' = counts /\ totWords' = totWords
          /\ ~(t = <<>> \/ IsStopWord(t)) =>
               /\ DOMAIN counts' = DOMAIN counts \cup {t}
               /\ counts'[t] = CountOf(counts, t) + 1
               /\ totWords' = totWords + 1
               /\ \A u \in DOMAIN counts : u # t => counts'[u] = counts[u]
          /\ t # <<>> => st_after' = <<>>
          /\ t = <<>> => st_after' = <<>>]_vars

\* AddToken("b") on an object that already counts "b" and another term.
C20_Witness ==
  /\ st_op = "AddToken" /\ st_given = <<98>> /\ st_after = <<>>
  /\ <<98>> \in DOMAIN counts /\ counts[<<98>>] >= 2
  /\ Cardinality(DOMAIN counts) >= 2

\* ================================== SpecDecode: the loop of ProcessBuffer
\* One text goes through AddChunk and Finish, one pass of the while loop of
\* ProcessBuffer at a time.
\* The bytes of the texts decoded: 'b', the continuation bytes 80, A0, BD and
\* BF, and the lead bytes E0, ED, EF and F0.
DecodeBytes == {98, 128, 160, 189, 191, 224, 237, 239, 240}

DecodeTexts == UNION {[1..n -> DecodeBytes] : n \in 0..MaxLen}

\* What one pass of the loop, or the AddToken of Finish, did: the index
\* before and after, the codepoint decoded, whether a token was handed to
\* AddToken, and the token.
Pass(from, to, out, gave, handed) ==
  [made |-> TRUE, from |-> from, to |-> to, out |-> out, gave |-> gave,
   handed |-> handed]

NoPass ==
  [made |-> FALSE, from |-> 0, to |-> 0, out |-> 0, gave |-> FALSE,
   handed |-> <<>>]

\* tokenizer.AddChunk(text) has appended the text to _pending and entered
\* ProcessBuffer(false).
InitDecode ==
  /\ tk_input \in DecodeTexts /\ tk_fed = 0 /\ tk_pc = "idle"
  /\ tk_split = FALSE
  /\ pending = tk_input /\ token = <<>> /\ counts = EmptyCounts
  /\ totWords = 0
  /\ dc_index = 0 /\ dc_final = FALSE /\ dc_result = NoPass
  /\ dc_pc = "loop"
  /\ CvIdle /\ ChIdle /\ DocIdle /\ MainIdle
  /\ locale = "C" /\ StIdle /\ FdIdle /\ SimIdle /\ IoIdle

dcrest == <<tk_input, tk_fed, tk_pc, tk_split, cvvars, chvars, docvars,
            mainvars, locale, stvars, fdvars, simvars, iovars>>

\* One pass through the body of the while loop that decodes a codepoint.
LoopStep ==
  /\ dc_pc = "loop" /\ dc_index < Len(pending)
  /\ LET b == LoopBody(CurrentTok, dc_index, dc_final)
     IN /\ b.ok
        /\ SetTok(b.st)
        /\ dc_index' = b.index
        /\ dc_result' = Pass(dc_index, b.index, b.out, b.gave, b.handed)
  /\ UNCHANGED <<dc_final, dc_pc, dcrest>>

\* The loop ends, at the end of _pending or at a sequence that is not
\* complete yet; the bytes decoded are erased, and all of them in the final
\* chunk.
LoopExit ==
  /\ dc_pc = "loop"
  /\ \/ dc_index >= Len(pending)
     \/ ~LoopBody(CurrentTok, dc_index, dc_final).ok
  /\ pending' = IF dc_final THEN <<>>
                ELSE SubSeq(pending, dc_index + 1, Len(pending))
  /\ dc_pc' = IF dc_final THEN "flush" ELSE "chunked"
  /\ dc_result' = NoPass
  /\ UNCHANGED <<token, counts, totWords, dc_index, dc_final, dcrest>>

\* tokenizer.Finish() enters ProcessBuffer(true).
FinishCall ==
  /\ dc_pc = "chunked"
  /\ dc_final' = TRUE /\ dc_index' = 0 /\ dc_pc' = "loop"
  /\ UNCHANGED <<pending, token, counts, totWords, dc_result, dcrest>>

\* Finish hands the last token to AddToken.
FlushStep ==
  /\ dc_pc = "flush"
  /\ SetTok(AddToken(CurrentTok))
  /\ dc_result' = Pass(dc_index, dc_index, 0, TRUE, token)
  /\ dc_pc' = "finished"
  /\ UNCHANGED <<dc_index, dc_final, dcrest>>

NextDecode == LoopStep \/ LoopExit \/ FinishCall \/ FlushStep

SpecDecode == InitDecode /\ [][NextDecode]_vars

\* A well-formed UTF-8 sequence begins at the 0-based index i of data: the
\* byte ranges of the Unicode standard, which leave out the overlong forms,
\* the surrogates and what lies beyond U+10FFFF.
InRange(data, i, lo, hi) ==
  i < Len(data) /\ data[i + 1] >= lo /\ data[i + 1] <= hi

WellFormedAt(data, i) ==
  \/ InRange(data, i, 0, 127)
  \/ InRange(data, i, 194, 223) /\ InRange(data, i + 1, 128, 191)
  \/ /\ \/ InRange(data, i, 224, 224) /\ InRange(data, i + 1, 160, 191)
        \/ InRange(data, i, 225, 236) /\ InRange(data, i + 1, 128, 191)
        \/ InRange(data, i, 237, 237) /\ InRange(data, i + 1, 128, 159)
        \/ InRange(data, i, 238, 239) /\ InRange(data, i + 1, 128, 191)
     /\ InRange(data, i + 2, 128, 191)
  \/ /\ \/ InRange(data, i, 240, 240) /\ InRange(data, i + 1, 144, 191)
        \/ InRange(data, i, 241, 243) /\ InRange(data, i + 1, 128, 191)
        \/ InRange(data, i, 244, 244) /\ InRange(data, i + 1, 128, 143)
     /\ InRange(data, i + 2, 128, 191)
     /\ InRange(data, i + 3, 128, 191)

\* The bytes EF BF BD occur in the string.
HasReplacement(str) ==
  \E k \in 1..Len(str) :
    k + 2 <= Len(str) /\ SubSeq(str, k, k + 2) = <<239, 191, 189>>

Decoding == dc_pc = "loop" /\ dc_result.made

\* C15: a byte at which no well-formed sequence begins (an invalid lead or
\* continuation byte, an overlong or a surrogate encoding) decodes to U+FFFD
\* and consumes exactly one byte; every decoded U+FFFD ends the current
\* token; no token handed to the statistics contains the encoding of U+FFFD.
C15_InvalidBytesEndTokens ==
  /\ Decoding /\ ~WellFormedAt(pending, dc_result.from) =>
       dc_result.out = kReplacementChar
         /\ dc_result.to = dc_result.from + 1
  /\ Decoding /\ dc_result.out = kReplacementChar =>
       dc_result.gave /\ token = <<>>
  /\ dc_result.gave => ~HasReplacement(dc_result.handed)
  /\ ~HasReplacement(token)
  /\ \A t \in DOMAIN counts : ~HasReplacement(t)

\* The token "b" is ended by the lead byte of a surrogate encoding, of which
\* one byte is consumed.
C15_Witness ==
  /\ Decoding
  /\ dc_result.out = kReplacementChar /\ dc_result.handed = <<98>>
  /\ dc_result.to = dc_result.from + 1
  /\ pending[dc_result.from + 1] = 237
  /\ InRange(pending, dc_result.from + 1, 160, 191)
  /\ InRange(pending, dc_result.from + 2, 128, 191)
  /\ <<98>> \in DOMAIN counts

\* The passes end with the statistics of AddChunk and Finish as a whole.
DecodeAgrees ==
  dc_pc = "finished" =>
    counts = OneShot(tk_input).counts /\ totWords = OneShot(tk_input).totWords

\* ---------------------------------- claims about the end of main
\* The files that loaded with at least one word.
Usable == {f \in DOMAIN load_result : load_result[f] = "ok"}

Merged == m_pc \notin {"idle", "wait", "join", "merge"}

\* C16: with fewer than two documents left after loading, main ends with
\* status 2 and has scored nothing, built no row and selected no file to
\* move.
C16_TooFewDocumentsIsFatal ==
  Merged /\ Cardinality(Usable) < 2 =>
    /\ m_pc = "done" /\ status = 2
    /\ sim = <<>> /\ best_index = <<>> /\ best_score = <<>>
    /\ dedup_sources = <<>> /\ rows = <<>> /\ pair_ids = <<>>

\* Of several files exactly one loaded, and the run has ended.
C16_Witness ==
  /\ m_pc = "done" /\ status = 2
  /\ total_files >= 2 /\ Cardinality(Usable) = 1
  /\ Cardinality(DOMAIN files) = 1

\* The position of the document that produced a row: its file is the row's
\* left column.
ProducedAt(r) == CHOOSE p \in DOMAIN files : files[p] = r.file

\* C17: the output rows are in non-increasing order of score, and rows of
\* equal score are in the order of their construction, the ascending index
\* of the document that produced them.
C17_RowsByScoreThenConstruction ==
  m_pc = "done" /\ status = 0 =>
    \A a, b \in DOMAIN rows :
      a < b =>
        /\ rows[a].score >= rows[b].score
        /\ rows[a].score = rows[b].score =>
             ProducedAt(rows[a]) < ProducedAt(rows[b])

\* Three rows of which two and more have the same score.
C17_Witness ==
  /\ m_pc = "done" /\ status = 0 /\ Len(rows) >= 3
  /\ \E a, b \in DOMAIN rows : a < b /\ rows[a].score = rows[b].score

\* ================================== SpecFold: two renderings of the same words
\* The words, as lower-case codepoints: "b", the stop word "a", "e" with an
\* acute, and "b" followed by it.
FoldWords == {<<98>>, <<97>>, <<233>>, <<98, 233>>}

\* The separators: space, comma, no-break space, em dash.
FoldSeparators == {32, 44, 160, 8212}

\* The capital of a letter of FoldWords.
Capital(cp) == cp - 32

\* A codepoint sequence in UTF-8.
RECURSIVE Utf8Of(_)
Utf8Of(cps) ==
  IF cps = <<>> THEN <<>>
  ELSE AppendUtf8(<<>>, Head(cps)) \o Utf8Of(Tail(cps))

\* A word written in lower case or in capitals.
Written(word, capitals) ==
  Utf8Of([k \in DOMAIN word |-> IF capitals THEN Capital(word[k]) ELSE word[k]])

\* Two words with a separator between them.
Rendering(first, second, capitals, sep) ==
  Written(first, capitals[1]) \o Utf8Of(<<sep>>) \o Written(second, capitals[2])

\* Two texts with the same two words, each in its own case and with its own
\* separator, are about to be given to Statistics(text).
InitFold ==
  /\ locale \in Locales
  /\ \E first \in FoldWords, second \in FoldWords :
       \E lcase \in [1..2 -> BOOLEAN], rcase \in [1..2 -> BOOLEAN] :
         \E lsep \in FoldSeparators, rsep \in FoldSeparators :
           /\ fd_left = Rendering(first, second, lcase, lsep)
           /\ fd_right = Rendering(first, second, rcase, rsep)
  /\ fd_stats_left = NoResult /\ fd_stats_right = NoResult
  /\ fd_dist = NoResult /\ fd_pc = "start"
  /\ CvIdle /\ ChIdle /\ DocIdle /\ TkIdle /\ MainIdle
  /\ StIdle /\ DcIdle /\ SimIdle /\ IoIdle

fdrest == <<cvvars, chvars, docvars, tkvars, mainvars, locale, stvars,
            dcvars, simvars, iovars>>

\* The object Statistics(text) leaves, with one of the orders in which its
\* unordered_map can iterate.
StatisticsOf(text) ==
  LET st == OneShot(text)
  IN {StatObject(st.counts, o, st.totWords) : o \in Orders(DOMAIN st.counts)}

\* Statistics left(text); Statistics right(text): the constructor runs on
\* the left text, then on the right one.
FoldConstruct ==
  /\ fd_pc \in {"start", "left"}
  /\ \E made \in StatisticsOf(IF fd_pc = "start" THEN fd_left ELSE fd_right) :
       /\ fd_stats_left' = IF fd_pc = "start" THEN made ELSE fd_stats_left
       /\ fd_stats_right' = IF fd_pc = "start" THEN fd_stats_right ELSE made
  /\ fd_pc' = IF fd_pc = "start" THEN "left" ELSE "right"
  /\ UNCHANGED <<fd_left, fd_right, fd_dist, fdrest>>

\* left.Dist(right)
FoldDist ==
  /\ fd_pc = "right"
  /\ fd_dist' = Dist(fd_stats_left, fd_stats_right)
  /\ fd_pc' = "done"
  /\ UNCHANGED <<fd_left, fd_right, fd_stats_left, fd_stats_right, fdrest>>

NextFold == FoldConstruct \/ FoldDist

SpecFold == InitFold /\ [][NextFold]_vars

Folded == fd_pc = "done"

SameStatistics ==
  /\ fd_stats_left.counts = fd_stats_right.counts
  /\ fd_stats_left.totWords = fd_stats_right.totWords
  /\ fd_dist = Zero

IsAscii(text) == \A k \in DOMAIN text : text[k] < 128

Extensions == {"pdf", "rtf", "zip", "legacy", "other"}

\* The texts an extractor hands to its tokenizer: those of GivenTexts and
\* the stop word "a" alone.
ExtractedTexts == GivenTexts \cup {<<97>>}

\* The object holds what earlier calls left in it, and ReadFileToStatistics
\* is called on it.
InitRead ==
  /\ locale = "C"
  /\ tk_input = <<>> /\ tk_fed = 0 /\ tk_pc = "idle" /\ tk_split = FALSE
  /\ pending = <<>> /\ token = <<>>
  /\ \E before \in {<<>>} \cup GivenTexts :
       \E held \in {OneShot(before)} :
         counts = held.counts /\ totWords = held.totWords
  /\ rf_prior = totWords
  /\ rf_ext \in Extensions /\ rf_no_convert \in BOOLEAN
  /\ rf_attempt = NoResult /\ rf_text = <<>> /\ rf_finished = FALSE
  /\ rf_result = NoResult /\ rf_pc = "entry"
  /\ CvIdle /\ ChIdle /\ DocIdle /\ MainIdle
  /\ StIdle /\ DcIdle /\ FdIdle /\ SimIdle /\ MtIdle

rfrest ==
  <<tk_input, tk_fed, tk_pc, tk_split, pending, token, cvvars, chvars,
    docvars, mainvars, locale, stvars, dcvars, fdvars, simvars, mtvars>>

\* A plausible slip: the object is not cleared on entry.
ReadFileToStatisticsEnterKeeps ==
  /\ rf_pc = "entry"
  /\ rf_pc' = IF rf_no_convert \/ rf_ext = "other" THEN "raw" ELSE "extract"
  /\ UNCHANGED <<counts, totWords, rf_ext, rf_no_convert, rf_prior,
                 rf_attempt, rf_text, rf_finished, rf_result, rfrest>>

\* stats->Clear(); then the raw reader when no_convert is set or no
\* extractor is registered for the extension, the extractor otherwise.
ReadFileToStatisticsEnter ==
  /\ rf_pc = "entry"
  /\ counts' = EmptyCounts /\ totWords' = 0
  /\ rf_pc' = IF rf_no_convert \/ rf_ext = "other" THEN "raw" ELSE "extract"
  /\ UNCHANGED <<rf_ext, rf_no_convert, rf_prior, rf_attempt, rf_text,
                 rf_finished, rf_result, rfrest>>

\* One reader runs: the extractor of the extension (ExtractPdfText behind
\* LooksLikePdf, ExtractRtfText, ExtractZipXmlText behind LooksLikeZip,
\* ExtractLegacyOfficeText), or ReadRawFileToStatistics. It may fail to
\* open or to recognise the file, and then touches nothing; otherwise it
\* feeds the text it found to a tokenizer of its own on the object and calls
\* Finish, which the raw reader skips when ferror reports a read error.
\* An extractor returns !stats->IsEmpty(); when it fails the object is
\* cleared and the raw reader is next. The raw reader returns whether it
\* opened and read the file.
ReadAttempt ==
  /\ rf_pc \in {"extract", "raw"}
  /\ \E opened \in BOOLEAN, text \in ExtractedTexts, read_error \in BOOLEAN :
       /\ (read_error => rf_pc = "raw" /\ opened)
       /\ (~opened => text = <<98>>)
       /\ \E fed \in {AddChunk(TokState(<<>>, <<>>, counts, totWords), text)} :
            \E left \in {IF read_error THEN fed ELSE Finish(fed)} :
              LET raw == rf_pc = "raw"
                  succeeded ==
                    IF raw THEN opened /\ ~read_error
                    ELSE opened /\ ~IsEmpty(left.totWords)
              IN /\ rf_attempt' = IF raw THEN "raw" ELSE rf_ext
                 /\ rf_text' = IF opened THEN text ELSE <<>>
                 /\ rf_finished' = (opened /\ ~read_error)
                 /\ IF raw \/ succeeded
                    THEN /\ counts' = IF opened THEN left.counts ELSE counts
                         /\ totWords' =
                              IF opened THEN left.totWords ELSE totWords
                         /\ rf_result' = succeeded /\ rf_pc' = "done"
                    ELSE /\ counts' = EmptyCounts /\ totWords' = 0
                         /\ rf_result' = rf_result /\ rf_pc' = "raw"
  /\ UNCHANGED <<rf_ext, rf_no_convert, rf_prior, rfrest>>

NextRead == ReadFileToStatisticsEnter \/ ReadAttempt

SpecRead == InitRead /\ [][NextRead]_vars

\* What the reader that ran last leaves in an object that was empty.
LastAttemptAlone ==
  {IF rf_finished THEN OneShot(rf_text)
   ELSE AddChunk(TokState(<<>>, <<>>, EmptyCounts, 0), rf_text)}

HoldsLastAttemptOnly ==
  \E alone \in LastAttemptAlone :
    counts = alone.counts /\ totWords = alone.totWords

\* C28: ReadFileToStatistics clears the object on entry and again after an
\* extractor that fails, and when it returns the object holds exactly the
\* tokens of the reader that ran last (the extractor that succeeded, or the
\* raw reader): nothing of a failed extractor or of the content before the
\* call remains.
C28_OnlyLastAttemptRemains ==
  /\ [](rf_pc = "done" => HoldsLastAttemptOnly)
  /\ [][rf_pc = "entry" => counts' = EmptyCounts /\ totWords' = 0]_vars
  /\ [][rf_pc = "extract" /\ rf_pc' = "raw" =>
          counts' = EmptyCounts /\ totWords' = 0]_vars
  /\ [](rf_pc = "done" /\ rf_attempt # "raw" =>
          rf_result = TRUE /\ rf_attempt = rf_ext /\ ~rf_no_convert)

\* A .pdf path whose object held words before the call: the extractor
\* failed, and the raw reader left its own words and returned true.
C28_Witness ==
  /\ rf_pc = "done" /\ rf_prior > 0 /\ rf_ext = "pdf" /\ ~rf_no_convert
  /\ rf_attempt = "raw" /\ rf_result = TRUE
  /\ rf_text = <<66, 32, 98, 98>> /\ totWords = 2 /\ HoldsLastAttemptOnly

\* ================================== SpecMatch: main() of MatchText.cpp
\* BlockingQueue<std::string> bq: a queue with no item, not shut down.
EmptyQueue == [items |-> <<>>, shutdown |-> FALSE]

\* bq.Push(repoFilePath)
Push(q, path) == [q EXCEPT !.items = Append(@, path)]

\* bq.RequestShutdown()
RequestShutdown(q) == [q EXCEPT !.shutdown = TRUE]

\* bq.Pop(repoFilePath) returns: an item is there, or the queue is shut down.
PopReturns(q) == q.items # <<>> \/ q.shutdown

\* bq.Pop(repoFilePath): true with the oldest item, false when the queue is
\* shut down and has none.
Pop(q) ==
  IF q.items # <<>>
  THEN [ok |-> TRUE, path |-> Head(q.items),
        queue |-> [q EXCEPT !.items = Tail(@)]]
  ELSE [ok |-> FALSE, path |-> 0, queue |-> q]

MatchWorkers == 1..workerCount

\* The sample was read and is not empty; nothing else has happened.
InitMatch ==
  /\ mt_can_open \in BOOLEAN /\ mt_paths \in 0..MaxFiles
  /\ workerCount \in 1..MaxWorkers
  /\ bq = EmptyQueue /\ mt_pushed = 0
  /\ mt_w_pc = <<>> /\ mt_w_path = <<>> /\ workerDocs = <<>>
  /\ mt_joined = {} /\ mt_pc = "start" /\ mt_status = NoResult
  /\ CvIdle /\ ChIdle /\ DocIdle /\ TkIdle /\ MainIdle
  /\ locale = "C" /\ StIdle /\ DcIdle /\ FdIdle /\ SimIdle /\ RfIdle

mtrest ==
  <<cvvars, chvars, docvars, tkvars, mainvars, locale, stvars, dcvars,
    fdvars, simvars, rfvars>>

\* workerDocs.resize(workerCount); workers.push_back(std::thread(...)) for
\* each worker.
StartWorkers ==
  /\ mt_pc = "start"
  /\ mt_w_pc' = [w \in MatchWorkers |-> "pop"]
  /\ mt_w_path' = [w \in MatchWorkers |-> 0]
  /\ workerDocs' = [w \in MatchWorkers |-> <<>>]
  /\ mt_pc' = "open"
  /\ UNCHANGED <<mt_can_open, mt_paths, workerCount, bq, mt_pushed,
                 mt_joined, mt_status, mtrest>>

\* fs::recursive_directory_iterator it(repoRoot, options, ec), or
\* fs::directory_iterator: when ec is set, "Cannot open repository
\* directory" and return 2.
OpenRepository ==
  /\ mt_pc = "open"
  /\ IF mt_can_open
     THEN mt_pc' = "enumerate" /\ mt_status' = mt_status
     ELSE mt_pc' = "returned" /\ mt_status' = 2
  /\ UNCHANGED <<mt_can_open, mt_paths, workerCount, bq, mt_pushed, mt_w_pc,
                 mt_w_path, workerDocs, mt_joined, mtrest>>

\* One regular file with an allowed extension: bq.Push(repoFilePath).
PushPath ==
  /\ mt_pc = "enumerate" /\ mt_pushed < mt_paths
  /\ bq' = Push(bq, mt_pushed + 1)
  /\ mt_pushed' = mt_pushed + 1
  /\ UNCHANGED <<mt_can_open, mt_paths, workerCount, mt_w_pc, mt_w_path,
                 workerDocs, mt_joined, mt_pc, mt_status, mtrest>>

\* The enumeration is over: bq.RequestShutdown().
ShutdownQueue ==
  /\ mt_pc = "enumerate" /\ mt_pushed = mt_paths
  /\ bq' = RequestShutdown(bq)
  /\ mt_pc' = "join"
  /\ UNCHANGED <<mt_can_open, mt_paths, workerCount, mt_pushed, mt_w_pc,
                 mt_w_path, workerDocs, mt_joined, mt_status, mtrest>>

\* workers[i].join(), in the order of the vector.
JoinWorker ==
  /\ mt_pc = "join"
  /\ \E w \in MatchWorkers :
       /\ w = Cardinality(mt_joined) + 1
       /\ mt_w_pc[w] = "exited"
       /\ mt_joined' = mt_joined \cup {w}
  /\ UNCHANGED <<mt_can_open, mt_paths, workerCount, bq, mt_pushed, mt_w_pc,
                 mt_w_path, workerDocs, mt_pc, mt_status, mtrest>>

\* Every worker is joined: the documents are merged, scored, sorted and
\* printed; return 0.
ReturnResults ==
  /\ mt_pc = "join" /\ mt_joined = MatchWorkers
  /\ mt_pc' = "returned" /\ mt_status' = 0
  /\ UNCHANGED <<mt_can_open, mt_paths, workerCount, bq, mt_pushed, mt_w_pc,
                 mt_w_path, workerDocs, mt_joined, mtrest>>

\* while (bq.Pop(repoFilePath)): the worker blocks until Pop returns, and
\* leaves its loop when Pop returns false.
WorkerPop(w) ==
  /\ mt_pc # "returned"
  /\ mt_w_pc[w] = "pop" /\ PopReturns(bq)
  /\ bq' = Pop(bq).queue
  /\ mt_w_pc' = [mt_w_pc EXCEPT ![w] = IF Pop(bq).ok THEN "read" ELSE "exited"]
  /\ mt_w_path' = [mt_w_path EXCEPT ![w] = Pop(bq).path]
  /\ UNCHANGED <<mt_can_open, mt_paths, workerCount, mt_pushed, workerDocs,
                 mt_joined, mt_pc, mt_status, mtrest>>

\* The body of the loop: ReadFileToStatistics fails, or leaves an empty
\* object, or the document is appended to workerDocs[i].
WorkerRead(w) ==
  /\ mt_pc # "returned"
  /\ mt_w_pc[w] = "read"
  /\ \E loaded \in {"fail", "empty", "ok"} :
       workerDocs' =
         IF loaded = "ok"
         THEN [workerDocs EXCEPT ![w] = Append(@, mt_w_path[w])]
         ELSE workerDocs
  /\ mt_w_pc' = [mt_w_pc EXCEPT ![w] = "pop"]
  /\ UNCHANGED <<mt_can_open, mt_paths, workerCount, bq, mt_pushed,
                 mt_w_path, mt_joined, mt_pc, mt_status, mtrest>>

NextMatch ==
  \/ StartWorkers
  \/ OpenRepository
  \/ PushPath
  \/ ShutdownQueue
  \/ JoinWorker
  \/ ReturnResults
  \/ \E w \in 1..MaxWorkers : w \in DOMAIN mt_w_pc /\ WorkerPop(w)
  \/ \E w \in 1..MaxWorkers : w \in DOMAIN mt_w_pc /\ WorkerRead(w)

SpecMatch == InitMatch /\ [][NextMatch]_vars

\* C30: on every path by which main returns after the worker threads were
\* started, the "Cannot open repository directory" error return included,
\* the queue has been shut down and every worker thread has been joined
\* before main returns.
C30_ShutDownAndJoinedBeforeReturn ==
  mt_pc = "returned" => bq.shutdown /\ mt_joined = MatchWorkers


====
